---- MODULE Spec2Model ----
(***************************************************************************)
(* Ground-motion processing toolbox (GMProc.py): sdof_ltha (Newmark-beta   *)
(* SDOF solver), RotDxx_spectrum (rotated percentile spectrum) and         *)
(* butterworth_filter (argument validation, padding, filtering).           *)
(*                                                                         *)
(* Floating-point numbers are modelled as binary floats <<m, e>> of value  *)
(* m * 2^e with a MantBits-bit mantissa and round-to-nearest-even, so the  *)
(* order of operations and rounding matter as they do in the program.      *)
(* Arrays are sequences; a matrix is a sequence of rows.  Index r of the   *)
(* program is index r + 1 here.                                            *)
(***************************************************************************)
EXTENDS Integers, Sequences, FiniteSets, TLC

\* ------------------------------------------------------------------------
\* Bounds of the model
\* ------------------------------------------------------------------------
\* mantissa width of the modelled floats
MantBits == 13
\* longest record given to sdof_ltha
MaxN == 3
\* longest period grid given to sdof_ltha
MaxP == 2
\* longest component given to RotDxx_spectrum
MaxNRot == 2
\* longest signal given to butterworth_filter, in tens of samples
MaxNBw == 3
\* largest gibbs_extra given to butterworth_filter
MaxExtra == 1
\* longest record given to get_parameters
MaxNGp == 3

\* ------------------------------------------------------------------------
\* Floating-point arithmetic
\* ------------------------------------------------------------------------
\* exponent tag of the non-finite values: <<1, ESpecial>> is +inf,
\* <<-1, ESpecial>> is -inf, <<0, ESpecial>> is nan
ESpecial == 100000

Inf == <<1, ESpecial>>
NaN == <<0, ESpecial>>
Zero == <<0, 0>>

IsSpecial(x) == x[2] = ESpecial
IsNaN(x) == x = NaN
IsFinite(x) == x[2] # ESpecial

Abs(n) == IF n < 0 THEN -n ELSE n
Sgn(n) == IF n < 0 THEN -1 ELSE IF n > 0 THEN 1 ELSE 0

RECURSIVE BitLen(_)
\* number of binary digits of a > 0
BitLen(a) == IF a < 2 THEN 1
             ELSE IF a >= 65536 THEN 16 + BitLen(a \div 65536)
             ELSE IF a >= 256 THEN 8 + BitLen(a \div 256)
             ELSE IF a >= 16 THEN 4 + BitLen(a \div 16)
             ELSE 1 + BitLen(a \div 2)

\* a / d rounded to the nearest integer, ties to even
RoundDiv(a, d) ==
    (a \div d) + (IF 2 * (a % d) > d \/ (2 * (a % d) = d /\ (a \div d) % 2 = 1)
                  THEN 1 ELSE 0)

\* a rounded mantissa that reached 2^MantBits is renormalised
NormRounded(q, e) ==
    IF q = 2^MantBits THEN <<2^(MantBits - 1), e + 1>> ELSE <<q, e>>

\* a * 2^e for a > 0 of k binary digits, rounded to MantBits digits
NormPos(a, k, e) ==
    IF k <= MantBits
    THEN <<a * 2^(MantBits - k), e - (MantBits - k)>>
    ELSE NormRounded(RoundDiv(a, 2^(k - MantBits)), e + (k - MantBits))

FNeg(x) == <<-x[1], x[2]>>

FAbs(x) == <<Abs(x[1]), x[2]>>

\* m * 2^e rounded to MantBits bits, ties to even
Norm(m, e) ==
    IF m = 0 THEN Zero
    ELSE IF m > 0 THEN NormPos(m, BitLen(m), e)
    ELSE FNeg(NormPos(-m, BitLen(-m), e))

FromInt(n) == Norm(n, 0)

One == FromInt(1)
Two == FromInt(2)

FMul(x, y) ==
    IF IsSpecial(x) \/ IsSpecial(y)
    THEN IF IsNaN(x) \/ IsNaN(y) \/ x[1] = 0 \/ y[1] = 0
         THEN NaN
         ELSE <<Sgn(x[1]) * Sgn(y[1]), ESpecial>>
    ELSE Norm(x[1] * y[1], x[2] + y[2])

\* hi + lo for finite non-zero values with hi[2] >= lo[2]
FAddOrdered(hi, lo) ==
    IF hi[2] - lo[2] > MantBits + 1 THEN hi
    ELSE Norm(hi[1] * 2^(hi[2] - lo[2]) + lo[1], lo[2])

FAdd(x, y) ==
    IF IsSpecial(x) \/ IsSpecial(y)
    THEN IF IsNaN(x) \/ IsNaN(y) THEN NaN
         ELSE IF IsSpecial(x) /\ IsSpecial(y)
              THEN (IF x = y THEN x ELSE NaN)
              ELSE IF IsSpecial(x) THEN x ELSE y
    ELSE IF x[1] = 0 THEN y
    ELSE IF y[1] = 0 THEN x
    ELSE IF x[2] >= y[2] THEN FAddOrdered(x, y)
    ELSE FAddOrdered(y, x)

FSub(x, y) == FAdd(x, FNeg(y))

\* twice the quotient num / den, its last bit set when the division is
\* inexact, so that the rounding of Norm sees the remainder
QuotientSticky(num, den) ==
    2 * (num \div den) + (IF num % den = 0 THEN 0 ELSE 1)

FDiv(x, y) ==
    IF IsSpecial(x) \/ IsSpecial(y)
    THEN IF IsNaN(x) \/ IsNaN(y) \/ (IsSpecial(x) /\ IsSpecial(y)) THEN NaN
         ELSE IF IsSpecial(x)
              THEN <<x[1] * (IF y[1] < 0 THEN -1 ELSE 1), ESpecial>>
              ELSE Zero
    ELSE IF y[1] = 0
         THEN <<Sgn(x[1]), ESpecial>>
    ELSE IF x[1] = 0 THEN Zero
    ELSE Norm(Sgn(x[1]) * Sgn(y[1])
                * QuotientSticky(Abs(x[1]) * 2^(MantBits + 1), Abs(y[1])),
              x[2] - y[2] - MantBits - 2)

\* x < y ; any comparison with nan is false
FLt(x, y) ==
    IF IsNaN(x) \/ IsNaN(y) THEN FALSE
    ELSE IF IsSpecial(x) \/ IsSpecial(y)
         THEN x # y /\ (x = <<-1, ESpecial>> \/ y = Inf)
    ELSE IF Sgn(x[1]) # Sgn(y[1]) THEN Sgn(x[1]) < Sgn(y[1])
    ELSE IF x[1] = 0 THEN FALSE
    ELSE IF x[1] > 0
         THEN x[2] < y[2] \/ (x[2] = y[2] /\ x[1] < y[1])
         ELSE x[2] > y[2] \/ (x[2] = y[2] /\ x[1] < y[1])

FGt(x, y) == FLt(y, x)

FLe(x, y) == ~IsNaN(x) /\ ~IsNaN(y) /\ ~FLt(y, x)

\* np.max of two values: nan if either is
FMax(x, y) == IF IsNaN(x) \/ IsNaN(y) THEN NaN ELSE IF FLt(x, y) THEN y ELSE x

\* the float nearest to the decimal literal n/d
Rat(n, d) == FDiv(FromInt(n), FromInt(d))

\* np.pi, held to 20 binary places and rounded to the mantissa width
PiBits == 3294199
Pi == Norm(PiBits, -20)

\* 2 * np.pi
TwoPi == FMul(Two, Pi)

\* a vector over the period axis, or a matrix row, held as a sequence
Vec(f) == f \o <<>>

ZeroRow(n2) == Vec([j \in 1..n2 |-> Zero])

\* np.zeros((n1, n2))
Zeros(n1, n2) == Vec([r \in 1..n1 |-> ZeroRow(n2)])

Column(M, j) == Vec([r \in 1..Len(M) |-> M[r][j]])

RECURSIVE MaxOf(_)
\* np.max of a non-empty sequence
MaxOf(sq) == IF Len(sq) = 1 THEN sq[1] ELSE FMax(sq[1], MaxOf(Tail(sq)))

SeqsUpTo(S, n) == UNION {[1..k -> S] : k \in 1..n}

\* ------------------------------------------------------------------------
\* State
\* ------------------------------------------------------------------------
VARIABLES
    pc,        \* position of the call in progress
    err,       \* the exception the call ended with, or "none"
    dt,        \* time step
    T,         \* period grid
    xi,        \* damping ratio
    Ag,        \* sdof_ltha: acceleration record
    m,         \* mass
    coef,      \* sdof_ltha: period-dependent Newmark constants
    i,         \* sdof_ltha: loop index of the time loop (0-based)
    u,         \* relative displacement history, n1 rows of n2 entries
    v,         \* relative velocity history
    ac,        \* relative acceleration history
    ac_tot,    \* total acceleration history
    nwrites,   \* per row, how many times the time loop has written it
    caller1,   \* RotDxx_spectrum: the caller's first component
    caller2,   \* the caller's second component
    Ag1,       \* the local binding of the first component
    Ag2,       \* the local binding of the second component
    xx,        \* percentile asked for
    theta,     \* loop variable of the rotation sweep
    u1,        \* displacement history of the first component
    u2,        \* displacement history of the second component
    Rot_Disp,  \* rotated peak displacement, one row per angle
    Sa_RotDxx, \* the spectrum returned
    values,    \* butterworth_filter: the caller's signal
    cut_off,   \* the cut_off argument as passed: its type and its items
    kwargs,    \* remove_gibbs, gibbs_extra, gibbs_range, filter_order
    filter_type,      \* "band", "low" or "high"
    cut,       \* the local cut_off after the type selection
    nyq,       \* Nyquist frequency
    values_filtered,  \* the working signal
    org_len,   \* length of the caller's signal
    s_len,     \* first index of the slice returned
    f_len,     \* end index of the slice returned
    wp,        \* normalised frequencies given to the filter design
    ba,        \* the filter designed by butter
    callerT,   \* get_parameters: the caller's period grid
    param,     \* the dictionary of results, an entry unset until assigned
    time,      \* the time array t
    Vg,        \* ground velocity
    Dg,        \* ground displacement
    Aint,      \* Arias-intensity running curve
    index1,    \* index of the period 0.1 in T, or Unbound
    index2,    \* index of the period 2.5 in T, or Unbound
    index3,    \* index of the period 0.5 in T, or Unbound
    ncall,     \* number of the call in progress, from 1
    first,     \* the histories the first of two repeated calls returned
    beta_forced,      \* whether the run keeps Beta at 1/6 for every period
    polynomial_type,  \* baseline_correction: the polynomial asked for
    degree,    \* the local n: degree of the polynomial, or Unbound
    P,         \* coefficients of the fitted polynomial
    po_va,     \* the fitted polynomial at the sample times
    values_corrected, \* the signal returned
    heap,      \* the arrays in memory: contents and the call that made them
    pool,      \* the arrays the caller holds: its buffers and the results
    loc,       \* the local names of the call in progress and their arrays
    callee     \* the function the call in progress runs

callVars == <<dt, T, xi>>

sdofVars == <<Ag, m, coef, i, u, v, ac, ac_tot, nwrites>>

rotVars == <<caller1, caller2, Ag1, Ag2, xx, theta, u1, u2, Rot_Disp,
             Sa_RotDxx>>

bwVars == <<values, cut_off, kwargs, filter_type, cut, nyq, values_filtered,
            org_len, s_len, f_len, wp, ba>>

gpVars == <<callerT, param, time, Vg, Dg, Aint, index1, index2, index3>>

repVars == <<ncall, first, beta_forced>>

baseVars == <<polynomial_type, degree, P, po_va, values_corrected>>

memVars == <<heap, pool, loc, callee>>

vars == <<pc, err, callVars, sdofVars, rotVars, bwVars, gpVars, repVars,
          baseVars, memVars>>

\* the variables of sdof_ltha while no such call is traced step by step
SdofIdle ==
    /\ Ag = <<>>
    /\ m = One
    /\ coef = <<>>
    /\ i = 0
    /\ u = <<>>
    /\ v = <<>>
    /\ ac = <<>>
    /\ ac_tot = <<>>
    /\ nwrites = <<>>

\* the variables of RotDxx_spectrum while no such call is made
RotIdle ==
    /\ caller1 = <<>>
    /\ caller2 = <<>>
    /\ Ag1 = <<>>
    /\ Ag2 = <<>>
    /\ xx = 0
    /\ theta = 0
    /\ u1 = <<>>
    /\ u2 = <<>>
    /\ Rot_Disp = <<>>
    /\ Sa_RotDxx = <<>>

\* the variables of butterworth_filter while no such call is made
BwIdle ==
    /\ values = <<>>
    /\ cut_off = <<>>
    /\ kwargs = <<>>
    /\ filter_type = "unset"
    /\ cut = <<>>
    /\ nyq = Zero
    /\ values_filtered = <<>>
    /\ org_len = 0
    /\ s_len = 0
    /\ f_len = 0
    /\ wp = <<>>
    /\ ba = <<>>

\* a local name of get_parameters that no assignment has bound yet
Unbound == -1

\* the variables of get_parameters while no such call is made
GpIdle ==
    /\ callerT = <<>>
    /\ param = <<>>
    /\ time = <<>>
    /\ Vg = <<>>
    /\ Dg = <<>>
    /\ Aint = <<>>
    /\ index1 = Unbound
    /\ index2 = Unbound
    /\ index3 = Unbound

\* no repeated call is traced
RepIdle ==
    /\ ncall = 1
    /\ first = <<>>
    /\ beta_forced = FALSE

\* the variables of baseline_correction while no such call is made
BaseIdle ==
    /\ polynomial_type = ""
    /\ degree = Unbound
    /\ P = <<>>
    /\ po_va = <<>>
    /\ values_corrected = <<>>

\* no memory is traced
MemIdle ==
    /\ heap = <<>>
    /\ pool = <<>>
    /\ loc = <<>>
    /\ callee = ""

\* ------------------------------------------------------------------------
\* sdof_ltha
\* ------------------------------------------------------------------------
\* lines 213-214: fn = 1 / T ; wn = 2 * np.pi * fn
CircFreq(T_) == Vec([j \in 1..Len(T_) |-> FMul(TwoPi, FDiv(One, T_[j]))])

\* line 215: k = m * wn ** 2
Stiffness(wn, m_) == Vec([j \in 1..Len(wn) |-> FMul(m_, FMul(wn[j], wn[j]))])

\* line 216: c = 2 * m * wn * xi
Damping(wn, xi_, m_) ==
    Vec([j \in 1..Len(wn) |-> FMul(FMul(FMul(Two, m_), wn[j]), xi_)])

\* line 219: Gamma = ones * (1 / 2)
NewmarkGamma(T_) == Vec([j \in 1..Len(T_) |-> FMul(One, Rat(1, 2))])

\* line 221 alone: Beta = ones * 1 / 6, the linear acceleration method on
\* every period
NewmarkBetaLinear(dt_, T_) ==
    Vec([j \in 1..Len(T_) |-> FDiv(FMul(One, One), FromInt(6))])

\* the switch taken past dt / T = 0.6 instead of 0.55
NewmarkBetaLateSwitch(dt_, T_) ==
    Vec([j \in 1..Len(T_) |->
        IF FGt(FDiv(dt_, T_[j]), Rat(6, 10))
        THEN Rat(1, 4)
        ELSE FDiv(FMul(One, One), FromInt(6))])

\* the switch taken once for the whole grid instead of per period
NewmarkBetaGlobal(dt_, T_) ==
    Vec([j \in 1..Len(T_) |->
        IF \E q \in 1..Len(T_) : FGt(FDiv(dt_, T_[q]), Rat(55, 100))
        THEN Rat(1, 4)
        ELSE FDiv(FMul(One, One), FromInt(6))])

\* lines 221-223: Beta = ones * 1 / 6 ; Beta[np.where(dt / T > 0.55)] = 1 / 4
NewmarkBeta(dt_, T_) ==
    Vec([j \in 1..Len(T_) |->
        IF FGt(FDiv(dt_, T_[j]), Rat(55, 100))
        THEN Rat(1, 4)
        ELSE FDiv(FMul(One, One), FromInt(6))])

\* lines 226-231: a1 .. a6 from Gamma, Beta and dt
NewmarkA(Gamma, Beta, dt_) ==
    [a1 |-> Vec([j \in 1..Len(Beta) |-> FDiv(Gamma[j], FMul(Beta[j], dt_))]),
     a2 |-> Vec([j \in 1..Len(Beta) |->
                   FDiv(One, FMul(Beta[j], FMul(dt_, dt_)))]),
     a3 |-> Vec([j \in 1..Len(Beta) |-> FDiv(One, FMul(Beta[j], dt_))]),
     a4 |-> Vec([j \in 1..Len(Beta) |-> FDiv(Gamma[j], Beta[j])]),
     a5 |-> Vec([j \in 1..Len(Beta) |-> FDiv(One, FMul(Two, Beta[j]))]),
     a6 |-> Vec([j \in 1..Len(Beta) |->
                   FMul(FSub(FDiv(Gamma[j], FMul(Two, Beta[j])), One), dt_)])]

\* lines 210, 232-234: p, kf, a, b, gathered with the constants they use
NewmarkEffective(Ag_, m_, k, c, Gamma, Beta, A) ==
    [p |-> Vec([r \in 1..Len(Ag_) |-> FMul(FNeg(m_), Ag_[r])]),
     k |-> k, c |-> c, Gamma |-> Gamma, Beta |-> Beta,
     a1 |-> A.a1, a2 |-> A.a2, a3 |-> A.a3, a4 |-> A.a4, a5 |-> A.a5,
     a6 |-> A.a6,
     kf |-> Vec([j \in 1..Len(k) |->
                   FAdd(FAdd(k[j], FMul(A.a1[j], c[j])), FMul(A.a2[j], m_))]),
     a |-> Vec([j \in 1..Len(k) |->
                  FAdd(FMul(A.a3[j], m_), FMul(A.a4[j], c[j]))]),
     b |-> Vec([j \in 1..Len(k) |->
                  FAdd(FMul(A.a5[j], m_), FMul(A.a6[j], c[j]))])]

\* the constants with the system properties wn given
NewmarkFromFreq(Ag_, dt_, xi_, m_, wn, Gamma, Beta) ==
    NewmarkEffective(Ag_, m_, Stiffness(wn, m_), Damping(wn, xi_, m_),
                     Gamma, Beta, NewmarkA(Gamma, Beta, dt_))

\* lines 209-234: every constant of the integration, each a vector over the
\* period grid
NewmarkCoef(Ag_, dt_, T_, xi_, m_) ==
    NewmarkFromFreq(Ag_, dt_, xi_, m_, CircFreq(T_), NewmarkGamma(T_),
                    NewmarkBeta(dt_, T_))

\* lines 237-240 and 243-246 with the initial acceleration ac0 given
StartWith(Ag_, n1, n2, ac0) ==
    [u |-> [Zeros(n1, n2) EXCEPT ![1] = ZeroRow(n2)],
     v |-> [Zeros(n1, n2) EXCEPT ![1] = ZeroRow(n2)],
     ac |-> [Zeros(n1, n2) EXCEPT ![1] = ac0],
     ac_tot |-> [Zeros(n1, n2) EXCEPT
                   ![1] = Vec([j \in 1..n2 |-> FAdd(ac0[j], Ag_[1])])]]

\* the initial total acceleration left at the relative one
NewmarkStartNoInput(Ag_, T_, m_, cf) ==
    [u |-> Zeros(Len(Ag_), Len(T_)),
     v |-> Zeros(Len(Ag_), Len(T_)),
     ac |-> [Zeros(Len(Ag_), Len(T_)) EXCEPT
               ![1] = Vec([j \in 1..Len(T_) |-> FDiv(cf.p[1], m_)])],
     ac_tot |-> [Zeros(Len(Ag_), Len(T_)) EXCEPT
                   ![1] = Vec([j \in 1..Len(T_) |-> FDiv(cf.p[1], m_)])]]

\* lines 236-246: the zero histories with the initial conditions in row 0:
\* u[0] = 0, v[0] = 0, ac[0] = (p[0] - c * v[0] - k * u[0]) / m
NewmarkStart(Ag_, T_, m_, cf) ==
    StartWith(Ag_, Len(Ag_), Len(T_),
              Vec([j \in 1..Len(T_) |->
                     FDiv(FSub(FSub(cf.p[1], FMul(cf.c[j], Zero)),
                               FMul(cf.k[j], Zero)), m_)]))

\* lines 249-250: dpf = (p[i+1] - p[i]) + a * v[i] + b * ac[i] ; du = dpf / kf
StepDu(h, cf, r) ==
    Vec([j \in 1..Len(cf.k) |->
        FDiv(FAdd(FAdd(FSub(cf.p[r + 1], cf.p[r]), FMul(cf.a[j], h.v[r][j])),
                  FMul(cf.b[j], h.ac[r][j])),
             cf.kf[j])])

\* line 251: dv = a1 * du - a4 * v[i] - a6 * ac[i]
StepDv(h, cf, r, du) ==
    Vec([j \in 1..Len(cf.k) |->
        FSub(FSub(FMul(cf.a1[j], du[j]), FMul(cf.a4[j], h.v[r][j])),
             FMul(cf.a6[j], h.ac[r][j]))])

\* line 252: da = a2 * du - a3 * v[i] - a5 * ac[i]
StepDa(h, cf, r, du) ==
    Vec([j \in 1..Len(cf.k) |->
        FSub(FSub(FMul(cf.a2[j], du[j]), FMul(cf.a3[j], h.v[r][j])),
             FMul(cf.a5[j], h.ac[r][j]))])

\* lines 255-256: u[i+1] = u[i] + du ; v[i+1] = v[i] + dv
AddRows(x, d) == Vec([j \in 1..Len(x) |-> FAdd(x[j], d[j])])

\* line 258: ac_tot[i+1] = ac[i+1] + Ag[i+1]
AddInput(x, g) == Vec([j \in 1..Len(x) |-> FAdd(x[j], g)])

\* lines 255-258 with the increments and the new relative acceleration given
StepWrite(h, Ag_, r, du, dv, acn) ==
    [u |-> [h.u EXCEPT ![r + 1] = AddRows(h.u[r], du)],
     v |-> [h.v EXCEPT ![r + 1] = AddRows(h.v[r], dv)],
     ac |-> [h.ac EXCEPT ![r + 1] = acn],
     ac_tot |-> [h.ac_tot EXCEPT ![r + 1] = AddInput(acn, Ag_[r + 1])]]

\* lines 251-258 with du given
StepFrom(h, cf, Ag_, r, du) ==
    StepWrite(h, Ag_, r, du, StepDv(h, cf, r, du),
              AddRows(h.ac[r], StepDa(h, cf, r, du)))

\* lines 249-258: one pass of the time loop for loop index ii (0-based);
\* reads row ii, writes row ii + 1
NewmarkStep(h, cf, Ag_, ii) == StepFrom(h, cf, Ag_, ii + 1, StepDu(h, cf, ii + 1))

\* the loop stopping one pass early
LoopStopsEarly(ii, n1) == ii < n1 - 2

\* line 248, for i in range(n1 - 1): whether the body runs for index ii
LoopContinues(ii, n1) == ii < n1 - 1

RECURSIVE NewmarkLoop(_, _, _, _, _)
\* lines 248-258: the passes of the time loop from loop index ii on
NewmarkLoop(h, cf, Ag_, ii, n1) ==
    IF LoopContinues(ii, n1)
    THEN NewmarkLoop(NewmarkStep(h, cf, Ag_, ii), cf, Ag_, ii + 1, n1)
    ELSE h

\* the call with its constants given
SdofRun(Ag_, T_, m_, cf) ==
    NewmarkLoop(NewmarkStart(Ag_, T_, m_, cf), cf, Ag_, 0, Len(Ag_))

\* the whole call: the four histories it returns
sdof_ltha(Ag_, dt_, T_, xi_, m_) ==
    SdofRun(Ag_, T_, m_, NewmarkCoef(Ag_, dt_, T_, xi_, m_))

\* inputs of the sdof_ltha calls
SampleSet == {Zero, One, FromInt(-2)}
DtSet == {Rat(1, 2), Rat(11, 10)}
PeriodSet == {One, Two}
Records == SeqsUpTo(SampleSet, MaxN)
Grids == SeqsUpTo(PeriodSet, MaxP)

History == [u |-> u, v |-> v, ac |-> ac, ac_tot |-> ac_tot]

InitSdof ==
    /\ pc = "start"
    /\ err = "none"
    /\ Ag \in Records
    /\ dt \in DtSet
    /\ T \in Grids
    /\ xi = Rat(5, 100)
    /\ m = One
    /\ coef = <<>>
    /\ i = 0
    /\ u = <<>>
    /\ v = <<>>
    /\ ac = <<>>
    /\ ac_tot = <<>>
    /\ nwrites = <<>>
    /\ RotIdle
    /\ BwIdle
    /\ GpIdle
    /\ RepIdle
    /\ BaseIdle
    /\ MemIdle

\* the setup of a solver that keeps its state: a repeated call starts from
\* the last displacement and velocity of the call before
SdofSetupResumes ==
    /\ pc = "start"
    /\ coef' = NewmarkCoef(Ag, dt, T, xi, m)
    /\ \E h \in {NewmarkStart(Ag, T, m, coef')} :
          /\ u' = IF u = <<>> THEN h.u ELSE [h.u EXCEPT ![1] = u[Len(u)]]
          /\ v' = IF v = <<>> THEN h.v ELSE [h.v EXCEPT ![1] = v[Len(v)]]
          /\ ac' = h.ac
          /\ ac_tot' = h.ac_tot
    /\ i' = 0
    /\ nwrites' = [r \in 1..Len(Ag) |-> 0]
    /\ pc' = "loop"
    /\ UNCHANGED <<repVars, baseVars, memVars, gpVars, err, callVars, Ag, m,
                   rotVars, bwVars>>

\* lines 203-246: constants, zero histories, initial conditions
SdofSetup ==
    /\ pc = "start"
    /\ coef' = NewmarkCoef(Ag, dt, T, xi, m)
    /\ \E h \in {NewmarkStart(Ag, T, m, coef')} :
          /\ u' = h.u
          /\ v' = h.v
          /\ ac' = h.ac
          /\ ac_tot' = h.ac_tot
    /\ i' = 0
    /\ nwrites' = [r \in 1..Len(Ag) |-> 0]
    /\ pc' = "loop"
    /\ UNCHANGED <<repVars, baseVars, memVars, gpVars, err, callVars, Ag, m, rotVars, bwVars>>

\* lines 248-258: one pass of the time loop
SdofStep ==
    /\ pc = "loop"
    /\ LoopContinues(i, Len(Ag))
    /\ \E h \in {NewmarkStep(History, coef, Ag, i)} :
          /\ u' = h.u
          /\ v' = h.v
          /\ ac' = h.ac
          /\ ac_tot' = h.ac_tot
    /\ nwrites' = [nwrites EXCEPT ![i + 2] = @ + 1]
    /\ i' = i + 1
    /\ UNCHANGED <<repVars, baseVars, memVars, gpVars, pc, err, callVars, Ag, m, coef, rotVars, bwVars>>

\* line 260: return u, v, ac, ac_tot
SdofReturn ==
    /\ pc = "loop"
    /\ ~LoopContinues(i, Len(Ag))
    /\ pc' = "done"
    /\ UNCHANGED <<repVars, baseVars, memVars, gpVars, err, callVars, sdofVars, rotVars, bwVars>>

NextSdof == SdofSetup \/ SdofStep \/ SdofReturn

SpecSdof == InitSdof /\ [][NextSdof]_vars

\* calls of sdof_ltha with a time step that is zero or negative
BadDtSet == {Zero, Rat(-1, 2)}

InitSdofBadDt ==
    /\ pc = "start"
    /\ err = "none"
    /\ Ag \in Records
    /\ dt \in BadDtSet
    /\ T \in Grids
    /\ xi = Rat(5, 100)
    /\ m = One
    /\ coef = <<>>
    /\ i = 0
    /\ u = <<>>
    /\ v = <<>>
    /\ ac = <<>>
    /\ ac_tot = <<>>
    /\ nwrites = <<>>
    /\ RotIdle
    /\ BwIdle
    /\ GpIdle
    /\ RepIdle
    /\ BaseIdle
    /\ MemIdle

SpecSdofBadDt == InitSdofBadDt /\ [][NextSdof]_vars

\* calls of sdof_ltha on a grid that holds a zero period
HasZero(T_) == \E j \in 1..Len(T_) : T_[j] = Zero

ZeroGrids == {g \in SeqsUpTo({Zero, One}, MaxP) : HasZero(g)}

InitSdofZero ==
    /\ pc = "start"
    /\ err = "none"
    /\ Ag \in Records
    /\ dt \in DtSet
    /\ T \in ZeroGrids
    /\ xi = Rat(5, 100)
    /\ m = One
    /\ coef = <<>>
    /\ i = 0
    /\ u = <<>>
    /\ v = <<>>
    /\ ac = <<>>
    /\ ac_tot = <<>>
    /\ nwrites = <<>>
    /\ RotIdle
    /\ BwIdle
    /\ GpIdle
    /\ RepIdle
    /\ BaseIdle
    /\ MemIdle

SpecSdofZero == InitSdofZero /\ [][NextSdof]_vars

\* the call of the worked example, made twice with the same arguments, and
\* the calls on the other records of its length and sample values
Gravity == Rat(981, 100)

CaseRecord == <<Zero, Gravity, Zero, FNeg(Gravity), Zero>>

CaseRecords ==
    {Vec(f) : f \in [1..Len(CaseRecord) -> {Zero, Gravity, FNeg(Gravity)}]}

InitSdofRepeat ==
    /\ pc = "start"
    /\ err = "none"
    /\ Ag \in CaseRecords
    /\ dt = Rat(1, 100)
    /\ T = <<Rat(1, 2)>>
    /\ xi = Rat(5, 100)
    /\ m = One
    /\ coef = <<>>
    /\ i = 0
    /\ u = <<>>
    /\ v = <<>>
    /\ ac = <<>>
    /\ ac_tot = <<>>
    /\ nwrites = <<>>
    /\ RotIdle
    /\ BwIdle
    /\ GpIdle
    /\ RepIdle
    /\ BaseIdle
    /\ MemIdle

\* the caller keeps what the first call returned and calls again with the
\* same arguments; what the first call left in its locals is still there
SdofAgain ==
    /\ pc = "done"
    /\ ncall = 1
    /\ first' = History
    /\ ncall' = 2
    /\ pc' = "start"
    /\ UNCHANGED <<beta_forced, baseVars, memVars, gpVars, err, callVars,
                   sdofVars, rotVars, bwVars>>

NextSdofRepeat == NextSdof \/ SdofAgain

SpecSdofRepeat == InitSdofRepeat /\ [][NextSdofRepeat]_vars

\* long runs on one period with dt / T just past 0.55 and well past it: a
\* short pulse followed by rest, once as the code runs it and once with
\* line 223 left out, so that Beta stays at 1/6
StabLen == 200

StabHeads == {<<One>>, <<Zero, FromInt(-2)>>, <<Zero>>}

PulseThenRest(head, n) ==
    Vec([r \in 1..n |-> IF r <= Len(head) THEN head[r] ELSE Zero])

StabRecords == {PulseThenRest(head, StabLen) : head \in StabHeads}

StabDtSet == {Rat(551, 1000), Rat(552, 1000), Rat(11, 10)}

InitSdofStab ==
    /\ pc = "start"
    /\ err = "none"
    /\ Ag \in StabRecords
    /\ dt \in StabDtSet
    /\ T = <<One>>
    /\ xi = Rat(5, 100)
    /\ m = One
    /\ coef = <<>>
    /\ i = 0
    /\ u = <<>>
    /\ v = <<>>
    /\ ac = <<>>
    /\ ac_tot = <<>>
    /\ nwrites = <<>>
    /\ RotIdle
    /\ BwIdle
    /\ GpIdle
    /\ RepIdle
    /\ BaseIdle
    /\ MemIdle

\* lines 203-246 with line 223 left out: the setup of the run whose Beta is
\* forced to 1/6
SdofSetupForced ==
    /\ pc = "start"
    /\ ~beta_forced
    /\ beta_forced' = TRUE
    /\ coef' = NewmarkFromFreq(Ag, dt, xi, m, CircFreq(T), NewmarkGamma(T),
                               NewmarkBetaLinear(dt, T))
    /\ \E h \in {NewmarkStart(Ag, T, m, coef')} :
          /\ u' = h.u
          /\ v' = h.v
          /\ ac' = h.ac
          /\ ac_tot' = h.ac_tot
    /\ i' = 0
    /\ nwrites' = [r \in 1..Len(Ag) |-> 0]
    /\ pc' = "loop"
    /\ UNCHANGED <<ncall, first, baseVars, memVars, gpVars, err, callVars, Ag,
                   m, rotVars, bwVars>>

NextSdofStab == NextSdof \/ SdofSetupForced

SpecSdofStab == InitSdofStab /\ [][NextSdofStab]_vars

\* ------------------------------------------------------------------------
\* RotDxx_spectrum
\* ------------------------------------------------------------------------
\* number of rotation angles: np.zeros((180, n2)), range(0, 180, 1)
NAngles == 180

\* np.cos(np.deg2rad(theta)) and np.sin(np.deg2rad(theta)) for theta =
\* 0..179, held to 20 binary places
CosBits ==
    <<
       1048576, 1048416, 1047937, 1047139, 1046022, 1044586, 1042832, 1040760, 1038371, 1035666,
       1032646, 1029311, 1025662, 1021701, 1017429, 1012847, 1007956, 1002758, 997255, 991448,
       985339, 978930, 972223, 965219, 957922, 950333, 942454, 934288, 925838, 917105,
       908093, 898805, 889243, 879410, 869309, 858943, 848316, 837430, 826289, 814897,
       803256, 791370, 779244, 766880, 754282, 741455, 728402, 715127, 701634, 687928,
       674012, 659890, 645568, 631049, 616338, 601438, 586356, 571095, 555661, 540057,
       524288, 508360, 492277, 476044, 459665, 443147, 426494, 409711, 392803, 375776,
       358634, 341383, 324028, 306574, 289027, 271391, 253673, 235878, 218011, 200078,
       182083, 164033, 145934, 127789, 109606, 91389, 73145, 54878, 36595, 18300,
       0, -18300, -36595, -54878, -73145, -91389, -109606, -127789, -145934, -164033,
       -182083, -200078, -218011, -235878, -253673, -271391, -289027, -306574, -324028, -341383,
       -358634, -375776, -392803, -409711, -426494, -443147, -459665, -476044, -492277, -508360,
       -524288, -540057, -555661, -571095, -586356, -601438, -616338, -631049, -645568, -659890,
       -674012, -687928, -701634, -715127, -728402, -741455, -754282, -766880, -779244, -791370,
       -803256, -814897, -826289, -837430, -848316, -858943, -869309, -879410, -889243, -898805,
       -908093, -917105, -925838, -934288, -942454, -950333, -957922, -965219, -972223, -978930,
       -985339, -991448, -997255, -1002758, -1007956, -1012847, -1017429, -1021701, -1025662, -1029311,
       -1032646, -1035666, -1038371, -1040760, -1042832, -1044586, -1046022, -1047139, -1047937, -1048416
    >>

SinBits ==
    <<
       0, 18300, 36595, 54878, 73145, 91389, 109606, 127789, 145934, 164033,
       182083, 200078, 218011, 235878, 253673, 271391, 289027, 306574, 324028, 341383,
       358634, 375776, 392803, 409711, 426494, 443147, 459665, 476044, 492277, 508360,
       524288, 540057, 555661, 571095, 586356, 601438, 616338, 631049, 645568, 659890,
       674012, 687928, 701634, 715127, 728402, 741455, 754282, 766880, 779244, 791370,
       803256, 814897, 826289, 837430, 848316, 858943, 869309, 879410, 889243, 898805,
       908093, 917105, 925838, 934288, 942454, 950333, 957922, 965219, 972223, 978930,
       985339, 991448, 997255, 1002758, 1007956, 1012847, 1017429, 1021701, 1025662, 1029311,
       1032646, 1035666, 1038371, 1040760, 1042832, 1044586, 1046022, 1047139, 1047937, 1048416,
       1048576, 1048416, 1047937, 1047139, 1046022, 1044586, 1042832, 1040760, 1038371, 1035666,
       1032646, 1029311, 1025662, 1021701, 1017429, 1012847, 1007956, 1002758, 997255, 991448,
       985339, 978930, 972223, 965219, 957922, 950333, 942454, 934288, 925838, 917105,
       908093, 898805, 889243, 879410, 869309, 858943, 848316, 837430, 826289, 814897,
       803256, 791370, 779244, 766880, 754282, 741455, 728402, 715127, 701634, 687928,
       674012, 659890, 645568, 631049, 616338, 601438, 586356, 571095, 555661, 540057,
       524288, 508360, 492277, 476044, 459665, 443147, 426494, 409711, 392803, 375776,
       358634, 341383, 324028, 306574, 289027, 271391, 253673, 235878, 218011, 200078,
       182083, 164033, 145934, 127789, 109606, 91389, 73145, 54878, 36595, 18300
    >>

NpCos(th) == Norm(CosBits[th + 1], -20)

NpSin(th) == Norm(SinBits[th + 1], -20)

\* np.append(A, np.zeros(k))
AppendZeros(A, k) == A \o [q \in 1..k |-> Zero]

\* the longer component cut to the length of the shorter one
AlignLengthsTruncate(A1, A2) ==
    IF Len(A1) = Len(A2) THEN <<A1, A2>>
    ELSE IF Len(A1) > Len(A2)
         THEN <<SubSeq(A1, 1, Len(A2)), A2>>
         ELSE <<A1, SubSeq(A2, 1, Len(A1))>>

\* lines 570-575: the two components as the rest of the call uses them
AlignLengths(A1, A2) ==
    IF Len(A1) = Len(A2) THEN <<A1, A2>>
    ELSE IF Len(A1) > Len(A2)
         THEN <<A1, AppendZeros(A2, Len(A1) - Len(A2))>>
         ELSE <<AppendZeros(A1, Len(A2) - Len(A1)), A2>>

\* the peak of the first component alone, the second one left out
RotatedPeakFirstOnly(U1, U2, j, c, s) ==
    MaxOf(Vec([t \in 1..Len(U1) |-> FAbs(FMul(U1[t][j], c))]))

\* line 590 for one period, the factors cos and sin given:
\* np.max(np.abs(u1 * cos + u2 * sin))
RotatedPeakAt(U1, U2, j, c, s) ==
    MaxOf(Vec([t \in 1..Len(U1) |->
        FAbs(FAdd(FMul(U1[t][j], c), FMul(U2[t][j], s)))]))

\* line 590: the row of Rot_Disp for angle th
RotatedPeak(U1, U2, th, n2) ==
    Vec([j \in 1..n2 |-> RotatedPeakAt(U1, U2, j, NpCos(th), NpSin(th))])

\* the scaling of the pseudo-velocity, (2 * np.pi / T), not squared
RotAccUnsquared(RD, T_) ==
    Vec([r \in 1..Len(RD) |->
        Vec([j \in 1..Len(T_) |-> FMul(RD[r][j], FDiv(TwoPi, T_[j]))])])

\* Rot_Disp times the row of factors w2
ScaleRows(RD, w2) ==
    Vec([r \in 1..Len(RD) |->
        Vec([j \in 1..Len(w2) |-> FMul(RD[r][j], w2[j])])])

\* (2 * np.pi / T) ** 2
FreqSquared(w) == Vec([j \in 1..Len(w) |-> FMul(w[j], w[j])])

\* line 592: Rot_Disp * (2 * np.pi / T) ** 2
RotAcc(RD, T_) ==
    ScaleRows(RD, FreqSquared(Vec([j \in 1..Len(T_) |-> FDiv(TwoPi, T_[j])])))

RECURSIVE SortF(_)
\* the values of sq around the pivot p, each part in ascending order
SortAround(sq, p) ==
    SortF(SelectSeq(sq, LAMBDA x : FLt(x, p)))
        \o SelectSeq(sq, LAMBDA x : ~FLt(x, p) /\ ~FLt(p, x))
        \o SortF(SelectSeq(sq, LAMBDA x : FLt(p, x)))

\* the values of a sequence in ascending order
SortF(sq) ==
    IF Len(sq) <= 1 THEN sq ELSE SortAround(sq, sq[(Len(sq) + 1) \div 2])

\* numpy's linear interpolation between the order statistics a <= b
Lerp(a, b, t) ==
    IF a = b THEN a
    ELSE IF FLt(t, Rat(1, 2)) THEN FAdd(a, FMul(FSub(b, a), t))
    ELSE FSub(b, FMul(FSub(b, a), FSub(One, t)))

\* the percentile of the sorted values srt at the virtual index num/100
PercentileSorted(srt, num) ==
    Lerp(srt[(num \div 100) + 1],
         srt[(IF (num \div 100) + 1 > Len(srt) - 1
              THEN Len(srt) - 1 ELSE (num \div 100) + 1) + 1],
         Rat(num % 100, 100))

\* np.percentile(col, q) with the default linear interpolation: the virtual
\* index q/100*(n-1) between the two neighbouring order statistics
Percentile(col, q) == PercentileSorted(SortF(col), (Len(col) - 1) * q)

\* the percentile counted from the top
PercentileRowsFlipped(RA, q, n2) ==
    Vec([j \in 1..n2 |-> Percentile(Column(RA, j), 100 - q)])

\* line 593: np.percentile(Rot_Acc, xx, axis=0)
PercentileRows(RA, q, n2) ==
    Vec([j \in 1..n2 |-> Percentile(Column(RA, j), q)])

\* inputs of the RotDxx_spectrum calls
RotRecords == SeqsUpTo({One, FromInt(-2)}, MaxNRot)
RotSeconds == {<<One>>, <<FromInt(-2), One>>}
RotGrids == {<<Two>>, <<One, Two>>}
PercentileSet == {0, 50, 100}

InitRot ==
    /\ pc = "start"
    /\ err = "none"
    /\ caller1 \in RotRecords
    /\ caller2 \in {caller1} \cup RotSeconds
    /\ Ag1 = caller1
    /\ Ag2 = caller2
    /\ dt = Rat(11, 10)
    /\ T \in RotGrids
    /\ xi = Rat(5, 100)
    /\ xx \in PercentileSet
    /\ theta = 0
    /\ u1 = <<>>
    /\ u2 = <<>>
    /\ Rot_Disp = <<>>
    /\ Sa_RotDxx = <<>>
    /\ SdofIdle
    /\ BwIdle
    /\ GpIdle
    /\ RepIdle
    /\ BaseIdle
    /\ MemIdle

\* lines 569-575: bring the two components to one length
RotAlign ==
    /\ pc = "start"
    /\ \E al \in {AlignLengths(Ag1, Ag2)} :
          /\ Ag1' = al[1]
          /\ Ag2' = al[2]
    /\ pc' = "solve"
    /\ UNCHANGED <<repVars, baseVars, memVars, gpVars, err, callVars, sdofVars, bwVars, caller1, caller2, xx,
                   theta, u1, u2, Rot_Disp, Sa_RotDxx>>

\* lines 577-588: the two solver calls with m = 1, the empty matrix
RotSolve ==
    /\ pc = "solve"
    /\ u1' = sdof_ltha(Ag1, dt, T, xi, One).u
    /\ u2' = sdof_ltha(Ag2, dt, T, xi, One).u
    /\ Rot_Disp' = Zeros(NAngles, Len(T))
    /\ theta' = 0
    /\ pc' = "sweep"
    /\ UNCHANGED <<repVars, baseVars, memVars, gpVars, err, callVars, sdofVars, bwVars, caller1, caller2, Ag1, Ag2,
                   xx, Sa_RotDxx>>

\* lines 589-590: one pass of the rotation sweep
RotAngle ==
    /\ pc = "sweep"
    /\ theta < NAngles
    /\ Rot_Disp' = [Rot_Disp EXCEPT
                      ![theta + 1] = RotatedPeak(u1, u2, theta, Len(T))]
    /\ theta' = theta + 1
    /\ UNCHANGED <<repVars, baseVars, memVars, gpVars, pc, err, callVars, sdofVars, bwVars, caller1, caller2, Ag1,
                   Ag2, xx, u1, u2, Sa_RotDxx>>

\* lines 592-595: scale, take the percentile, return
RotPercentile ==
    /\ pc = "sweep"
    /\ theta >= NAngles
    /\ Sa_RotDxx' = PercentileRows(RotAcc(Rot_Disp, T), xx, Len(T))
    /\ pc' = "done"
    /\ UNCHANGED <<repVars, baseVars, memVars, gpVars, err, callVars, sdofVars, bwVars, caller1, caller2, Ag1, Ag2,
                   xx, theta, u1, u2, Rot_Disp>>

NextRot == RotAlign \/ RotSolve \/ RotAngle \/ RotPercentile

SpecRot == InitRot /\ [][NextRot]_vars

\* calls of RotDxx_spectrum on a grid that holds a zero period
RotZeroGrids == {<<Zero>>, <<Zero, Two>>, <<One, Zero>>}

InitRotZero ==
    /\ pc = "start"
    /\ err = "none"
    /\ caller1 \in RotRecords
    /\ caller2 \in {caller1} \cup RotSeconds
    /\ Ag1 = caller1
    /\ Ag2 = caller2
    /\ dt = Rat(11, 10)
    /\ T \in RotZeroGrids
    /\ xi = Rat(5, 100)
    /\ xx \in PercentileSet
    /\ theta = 0
    /\ u1 = <<>>
    /\ u2 = <<>>
    /\ Rot_Disp = <<>>
    /\ Sa_RotDxx = <<>>
    /\ SdofIdle
    /\ BwIdle
    /\ GpIdle
    /\ RepIdle
    /\ BaseIdle
    /\ MemIdle

SpecRotZero == InitRotZero /\ [][NextRot]_vars

\* ------------------------------------------------------------------------
\* butterworth_filter
\* ------------------------------------------------------------------------
\* Python's None as an item of cut_off, and as the value of remove_gibbs
None == <<>>

NoGibbs == "None"

\* kwargs.get defaults, lines 112-115
DefaultFilterOrder == 4

DefaultGibbsExtra == 1

DefaultGibbsRange == 50

\* isinstance(cut_off, list) or isinstance(cut_off, tuple), with every
\* sequence type let through
IsAnySequence(c) == c.type \in {"list", "tuple", "ndarray"}

\* isinstance(cut_off, list) or isinstance(cut_off, tuple)
IsListOrTuple(c) == c.type \in {"list", "tuple"}

\* the selection with the two one-sided filters exchanged
SelectFilterSwapped(items) ==
    IF items[1] # None /\ items[2] # None
    THEN [filter_type |-> "band", cut |-> items]
    ELSE IF items[1] = None
         THEN [filter_type |-> "high", cut |-> <<items[2]>>]
         ELSE [filter_type |-> "low", cut |-> <<items[1]>>]

\* lines 102-110: the filter type and the local cut_off, as the sequence of
\* the values kept (both for a band, else the one element picked)
SelectFilter(items) ==
    IF items[1] # None /\ items[2] # None
    THEN [filter_type |-> "band", cut |-> items]
    ELSE IF items[1] = None
         THEN [filter_type |-> "low", cut |-> <<items[2]>>]
         ELSE [filter_type |-> "high", cut |-> <<items[1]>>]

\* lines 116-117: sampling_rate = 1.0 / dt ; nyq = sampling_rate * 0.5
Nyquist(dt_) == FMul(FDiv(One, dt_), Rat(1, 2))

\* int(np.ceil(np.log2(n))) for n >= 1
CeilLog2(n) == CHOOSE k \in 0..20 : 2^k >= n /\ (k = 0 \/ 2^(k - 1) < n)

\* line 125: 2 ** nindex
NewLen(n, gibbs_extra) == 2^(CeilLog2(n) + gibbs_extra)

RECURSIVE SumF(_)
SumF(sq) ==
    IF sq = <<>> THEN Zero
    ELSE FAdd(SumF(SubSeq(sq, 1, Len(sq) - 1)), sq[Len(sq)])

\* np.mean
Mean(sq) == FDiv(SumF(sq), FromInt(Len(sq)))

\* x[:g]
FirstN(x, g) == SubSeq(x, 1, IF g < Len(x) THEN g ELSE Len(x))

\* x[-g:]
LastN(x, g) ==
    IF g = 0 \/ g >= Len(x) THEN x ELSE SubSeq(x, Len(x) - g + 1, Len(x))

\* lines 127-135: s_len, where the signal starts in the padded array
StartIndex(remove_gibbs, diff_len) ==
    IF remove_gibbs = "start" THEN 0
    ELSE IF remove_gibbs = "end" THEN diff_len
    ELSE diff_len \div 2

\* lines 139-141: start_value * np.ones(new_len), then temp[f_len:] =
\* end_value, then temp[s_len:f_len] = values_filtered
PadWith(x, start_value, end_value, new_len, sl, fl) ==
    Vec([q \in 1..new_len |->
          IF q > sl /\ q <= fl THEN x[q - sl]
          ELSE IF q > fl THEN end_value
          ELSE FMul(start_value, One)])

\* lines 137-142: the padded array
Padded(x, gibbs_range, new_len, sl, fl) ==
    PadWith(x, Mean(FirstN(x, gibbs_range)), Mean(LastN(x, gibbs_range)),
            new_len, sl, fl)

\* scipy.signal.butter accepts Wn only with 0 < Wn < 1
ValidWn(Wn) == \A q \in 1..Len(Wn) : FLt(Zero, Wn[q]) /\ FLt(Wn[q], One)

\* scipy.signal.butter: the design, kept as the arguments it was made from
butter(N, Wn, btype) == [N |-> N, Wn |-> Wn, btype |-> btype]

\* the number of coefficients of the design: N + 1, and 2N + 1 for a band
NTaps(design) ==
    IF design.btype = "band" THEN 2 * design.N + 1 ELSE design.N + 1

\* scipy.signal.filtfilt pads by 3 * ntaps samples and accepts only a
\* signal longer than that
FiltfiltAccepts(design, x) == Len(x) > 3 * NTaps(design)

\* scipy.signal.filtfilt: a signal of the length of its input; sample q is
\* the response of the designed filter at position q of the input
filtfilt(design, x) ==
    Vec([q \in 1..Len(x) |-> [pos |-> q, btype |-> design.btype]])

\* the first f - s samples, whatever the offset
SliceHead(x, s, f) == SubSeq(x, 1, IF f - s < Len(x) THEN f - s ELSE Len(x))

\* x[s:f]
Slice(x, s, f) == SubSeq(x, s + 1, IF f < Len(x) THEN f ELSE Len(x))

\* inputs of the butterworth_filter calls
F1 == Rat(1, 10)

F2 == FromInt(25)

CutOffItems ==
    [1..2 -> {None, F1, F2}]
        \cup {<<>>, <<F1>>, <<None>>, <<F1, F2, None>>, <<None, None, None>>}

CutOffArgs ==
    [type : {"tuple", "list", "ndarray"}, items : CutOffItems]
        \cup {[type |-> "float", items |-> <<F2>>],
              [type |-> "NoneType", items |-> <<>>]}

BwLengths == {1} \cup {10 * n : n \in 1..MaxNBw}

BwRecords == {Vec([q \in 1..n |-> FromInt(2 * (q % 7) - 3)]) : n \in BwLengths}

BwDtSet == {Rat(1, 100), Rat(1, 20)}

KwArgs ==
    [remove_gibbs : {NoGibbs, "start", "end", "mid"},
     gibbs_extra : 0..MaxExtra,
     gibbs_range : {1, 5, DefaultGibbsRange},
     filter_order : {DefaultFilterOrder}]

InitBw ==
    /\ pc = "start"
    /\ err = "none"
    /\ values \in BwRecords
    /\ dt \in BwDtSet
    /\ cut_off \in CutOffArgs
    /\ kwargs \in KwArgs
    /\ T = <<>>
    /\ xi = Zero
    /\ filter_type = "unset"
    /\ cut = <<>>
    /\ nyq = Zero
    /\ values_filtered = <<>>
    /\ org_len = 0
    /\ s_len = 0
    /\ f_len = 0
    /\ wp = <<>>
    /\ ba = <<>>
    /\ SdofIdle
    /\ RotIdle
    /\ GpIdle
    /\ RepIdle
    /\ BaseIdle
    /\ MemIdle

\* lines 96-99
BwCheckType ==
    /\ pc = "start"
    /\ IF IsListOrTuple(cut_off)
       THEN pc' = "checklen" /\ err' = err
       ELSE pc' = "error" /\ err' = "ValueError"
    /\ UNCHANGED <<repVars, baseVars, memVars, gpVars, callVars, sdofVars, rotVars, bwVars>>

\* lines 100-101
BwCheckLen ==
    /\ pc = "checklen"
    /\ IF Len(cut_off.items) # 2
       THEN pc' = "error" /\ err' = "ValueError"
       ELSE pc' = "select" /\ err' = err
    /\ UNCHANGED <<repVars, baseVars, memVars, gpVars, callVars, sdofVars, rotVars, bwVars>>

\* lines 102-110
BwSelect ==
    /\ pc = "select"
    /\ \E sel \in {SelectFilter(cut_off.items)} :
          /\ filter_type' = sel.filter_type
          /\ cut' = sel.cut
    /\ pc' = "params"
    /\ UNCHANGED <<repVars, baseVars, memVars, gpVars, err, callVars, sdofVars, rotVars, values, cut_off, kwargs,
                   nyq, values_filtered, org_len, s_len, f_len, wp, ba>>

\* lines 112-120
BwParams ==
    /\ pc = "params"
    /\ nyq' = Nyquist(dt)
    /\ values_filtered' = values
    /\ org_len' = Len(values)
    /\ pc' = "pad"
    /\ UNCHANGED <<repVars, baseVars, memVars, gpVars, err, callVars, sdofVars, rotVars, values, cut_off, kwargs,
                   filter_type, cut, s_len, f_len, wp, ba>>

\* lines 122-145
BwPad ==
    /\ pc = "pad"
    /\ IF kwargs.remove_gibbs # NoGibbs
       THEN \E new_len \in {NewLen(Len(values_filtered), kwargs.gibbs_extra)} :
            \E sl \in {StartIndex(kwargs.remove_gibbs, new_len - org_len)} :
               /\ s_len' = sl
               /\ f_len' = sl + org_len
               /\ values_filtered' =
                     Padded(values_filtered, kwargs.gibbs_range, new_len,
                            sl, sl + org_len)
       ELSE /\ s_len' = 0
            /\ f_len' = org_len
            /\ values_filtered' = values_filtered
    /\ pc' = "normalise"
    /\ UNCHANGED <<repVars, baseVars, memVars, gpVars, err, callVars, sdofVars, rotVars, values, cut_off, kwargs,
                   filter_type, cut, nyq, org_len, wp, ba>>

\* line 147: wp = cut_off / nyq ; None / float raises TypeError
BwNormalise ==
    /\ pc = "normalise"
    /\ IF \E q \in 1..Len(cut) : cut[q] = None
       THEN pc' = "error" /\ err' = "TypeError" /\ wp' = wp
       ELSE /\ wp' = Vec([q \in 1..Len(cut) |-> FDiv(cut[q], nyq)])
            /\ pc' = "design"
            /\ err' = err
    /\ UNCHANGED <<repVars, baseVars, memVars, gpVars, callVars, sdofVars, rotVars, values, cut_off, kwargs,
                   filter_type, cut, nyq, values_filtered, org_len, s_len,
                   f_len, ba>>

\* line 148: the design, refused by scipy for a frequency outside (0, 1)
BwDesign ==
    /\ pc = "design"
    /\ IF ValidWn(wp)
       THEN /\ ba' = butter(kwargs.filter_order, wp, filter_type)
            /\ pc' = "filter"
            /\ err' = err
       ELSE pc' = "error" /\ err' = "ValueError" /\ ba' = ba
    /\ UNCHANGED <<repVars, baseVars, memVars, gpVars, callVars, sdofVars, rotVars, values, cut_off, kwargs,
                   filter_type, cut, nyq, values_filtered, org_len, s_len,
                   f_len, wp>>

\* line 149: the zero-phase pass, refused by scipy for a signal too short
\* for the design
BwFilter ==
    /\ pc = "filter"
    /\ IF FiltfiltAccepts(ba, values_filtered)
       THEN /\ values_filtered' = filtfilt(ba, values_filtered)
            /\ pc' = "trim"
            /\ err' = err
       ELSE /\ pc' = "error"
            /\ err' = "ValueError"
            /\ values_filtered' = values_filtered
    /\ UNCHANGED <<repVars, baseVars, memVars, gpVars, callVars, sdofVars, rotVars, values, cut_off, kwargs,
                   filter_type, cut, nyq, org_len, s_len, f_len, wp, ba>>

\* lines 150-153
BwTrim ==
    /\ pc = "trim"
    /\ values_filtered' = Slice(values_filtered, s_len, f_len)
    /\ pc' = "done"
    /\ UNCHANGED <<repVars, baseVars, memVars, gpVars, err, callVars, sdofVars, rotVars, values, cut_off, kwargs,
                   filter_type, cut, nyq, org_len, s_len, f_len, wp, ba>>

NextBw ==
    \/ BwCheckType
    \/ BwCheckLen
    \/ BwSelect
    \/ BwParams
    \/ BwPad
    \/ BwNormalise
    \/ BwDesign
    \/ BwFilter
    \/ BwTrim

SpecBw == InitBw /\ [][NextBw]_vars

\* ------------------------------------------------------------------------
\* get_parameters
\* ------------------------------------------------------------------------
\* the marker 'N.A.' of an entry that is not applicable
NotApplicable == <<"N.A.", "N.A.", "N.A.">>

\* an entry of param that no assignment has made yet
Unset == <<>>

\* line 377: T[T != 0]
NonZero(T_) == SelectSeq(T_, LAMBDA x : x # Zero)

\* np.linspace(0, stop, n) for n >= 1
Linspace(stop, n) ==
    Vec([k \in 1..n |->
        IF k = 1 THEN Zero
        ELSE IF k = n THEN stop
        ELSE FMul(FromInt(k - 1), FDiv(stop, FromInt(n - 1)))])

\* line 384: np.linspace(0, (n1 - 1) * dt, n1)
TimeArray(n1, dt_) == Linspace(FMul(FromInt(n1 - 1), dt_), n1)

RECURSIVE PartialSum(_, _)
\* the sum of the first k values, added in their order
PartialSum(sq, k) ==
    IF k <= 0 THEN Zero
    ELSE IF k = 1 THEN sq[1]
    ELSE FAdd(PartialSum(sq, k - 1), sq[k])

\* the index range of the n - 1 steps between n samples, empty for n = 0
Steps(n) == 1..(IF n < 1 THEN 0 ELSE n - 1)

\* np.cumsum
CumSum(sq) == Vec([k \in 1..Len(sq) |-> PartialSum(sq, k)])

\* the trapezoids d * (y[1:] + y[:-1]) / 2.0 of y over x
TrapzTerms(y, x) ==
    Vec([k \in Steps(Len(y)) |->
        FDiv(FMul(FSub(x[k + 1], x[k]), FAdd(y[k + 1], y[k])), Two)])

\* cumtrapz(y, x, initial=0)
CumTrapz(y, x) == <<Zero>> \o CumSum(TrapzTerms(y, x))

\* np.trapz(y, x); 0.0 for fewer than two samples
Trapz(y, x) == PartialSum(TrapzTerms(y, x), Len(y) - 1)

NegSeq(sq) == Vec([k \in 1..Len(sq) |-> FNeg(sq[k])])

AbsSeq(sq) == Vec([k \in 1..Len(sq) |-> FAbs(sq[k])])

\* np.max(np.abs(M), axis=0) for a matrix of n2 columns
ColMaxAbs(M, n2) == Vec([j \in 1..n2 |-> MaxOf(AbsSeq(Column(M, j)))])

\* 2 * np.pi / T
AngularFreq(T_) == Vec([j \in 1..Len(T_) |-> FDiv(TwoPi, T_[j])])

\* line 398: (2 * np.pi / T) * Sd
PSvOf(w, sd) == FMul(w, sd)

\* line 399: ((2 * np.pi / T) ** 2) * Sd
PSaOf(w, sd) == FMul(FMul(w, w), sd)

\* lines 400-403: the last value of cumtrapz(-y, x) * m for column j of X
EnergyAt(y, X, j, m_) ==
    FMul(CumTrapz(NegSeq(y), Column(X, j))[Len(y)], m_)

\* the running curve built from the samples themselves, not their squares
AriasCurveUnsquared(Ag_, dt_) ==
    Vec([k \in 1..Len(Ag_) |->
        FDiv(FMul(FMul(PartialSum(Ag_, k), Pi), dt_),
             FMul(Two, Rat(981, 100)))])

\* Ag ** 2
Squares(sq) == Vec([k \in 1..Len(sq) |-> FMul(sq[k], sq[k])])

\* np.cumsum(x) * np.pi * dt / (2 * 9.81)
ScaledCumSum(cs, dt_) ==
    Vec([k \in 1..Len(cs) |->
        FDiv(FMul(FMul(cs[k], Pi), dt_), FMul(Two, Rat(981, 100)))])

\* line 411: np.cumsum(Ag ** 2) * np.pi * dt / (2 * 9.81)
AriasCurve(Ag_, dt_) == ScaledCumSum(CumSum(Squares(Ag_)), dt_)

\* np.rint of a finite value: the nearest integer, ties to even
Rint(x) ==
    IF x[2] >= 0 THEN x
    ELSE IF -x[2] > 30 THEN Zero
    ELSE FromInt(Sgn(x[1]) * RoundDiv(Abs(x[1]), 2^(-x[2])))

\* rounding to decimals as numpy does it: rint(x * 10^d) / 10^d, the factor
\* 10^d given as p
RoundTo(x, p) == FDiv(Rint(FMul(x, FromInt(p))), FromInt(p))

\* round(x, 3)
Round3(x) == RoundTo(x, 1000)

\* np.round(x, 8)
Round8(x) == RoundTo(x, 100000000)

\* the 0-based indices k of x for which keep(k + 1) holds: np.where(mask)[0]
WhereIdx(n, keep(_)) ==
    SelectSeq(Vec([k \in 1..n |-> k - 1]), LAMBDA k : keep(k + 1))

\* x[indices]
Take(x, indices) == Vec([q \in 1..Len(indices) |-> x[indices[q] + 1]])

\* the indices whose Arias intensity is at or above the fraction hi of the
\* terminal value
ShareIdxFromUpper(A, lo, hi) ==
    WhereIdx(Len(A), LAMBDA k : FLe(FMul(hi, A[Len(A)]), A[k]))

\* lines 427 and 435: the indices whose Arias intensity lies between the
\* fractions lo and hi of the terminal value
ShareIdx(A, lo, hi) ==
    WhereIdx(Len(A), LAMBDA k : /\ FLe(FMul(lo, A[Len(A)]), A[k])
                               /\ FLe(A[k], FMul(hi, A[Len(A)])))

\* lines 429-430: [round(timed[0], 3), round(timed[-1], 3)]
Window(timed) == <<Round3(timed[1]), Round3(timed[Len(timed)])>>

\* lines 432, 440, 450: round(t2 - t1, 3)
WindowLength(w) == Round3(FSub(w[2], w[1]))

\* 0.05 * 9.81
Threshold == FMul(Rat(5, 100), Rat(981, 100))

\* the threshold taken as 5% of the record's own peak
ExceedIdxRelative(Ag_) ==
    WhereIdx(Len(Ag_), LAMBDA k : FLe(FMul(Rat(5, 100), MaxOf(AbsSeq(Ag_))),
                                      FAbs(Ag_[k])))

\* lines 444-446: np.where(np.abs(Ag) >= 0.05 * 9.81)[0]
ExceedIdx(Ag_) ==
    WhereIdx(Len(Ag_), LAMBDA k : FLe(Threshold, FAbs(Ag_[k])))

\* np.diff
NpDiff(x) == Vec([k \in Steps(Len(x)) |-> FSub(x[k + 1], x[k])])

\* line 462: np.round(np.diff(t_treshold), 8)
RoundedGaps(tt) ==
    Vec([k \in Steps(Len(tt)) |-> Round8(FSub(tt[k + 1], tt[k]))])

\* every gap counted, whatever its length
UniformSumAllGaps(temp, dt_) == PartialSum(temp, Len(temp))

\* line 463: np.sum(temp[temp == dt])
UniformSum(temp, dt_) ==
    PartialSum(SelectSeq(temp, LAMBDA g : g = dt_),
               Len(SelectSeq(temp, LAMBDA g : g = dt_)))

RECURSIVE FirstAt(_, _, _)
\* the 0-based index of the first entry of T_ from position k on that
\* equals x, or Unbound
FirstAt(T_, x, k) ==
    IF k > Len(T_) THEN Unbound
    ELSE IF T_[k] = x THEN k - 1
    ELSE FirstAt(T_, x, k + 1)

\* a lookup that yields index 0 for a period that is not in the grid
IndexOfOrZero(T_, x) ==
    IF FirstAt(T_, x, 1) = Unbound THEN 0 ELSE FirstAt(T_, x, 1)

\* np.where(T == x)[0][0], Unbound when that raises IndexError
IndexOf(T_, x) == FirstAt(T_, x, 1)

\* np.trapz(y[a:b], T[a:b]), 'N.A.' when a or b is not bound
IntensityOver(y, T_, a, b) ==
    IF a = Unbound \/ b = Unbound THEN NotApplicable
    ELSE Trapz(Slice(y, a, b), Slice(T_, a, b))

\* lines 518-520: T[Sa == max(Sa)]
PredominantPeriods(T_, Sa) ==
    Take(T_, WhereIdx(Len(Sa), LAMBDA j : Sa[j] = MaxOf(Sa)))

RECURSIVE IsqrtFrom(_, _, _)
\* the largest r + (multiples of the bits from bit down) whose square is
\* at most a
IsqrtFrom(a, r, bit) ==
    IF bit = 0 THEN r
    ELSE IF (r + bit) * (r + bit) <= a THEN IsqrtFrom(a, r + bit, bit \div 2)
    ELSE IsqrtFrom(a, r, bit \div 2)

\* twice the integer square root of a, its last bit set when a is not a
\* square, so that the rounding of Norm sees the remainder
RootSticky(a, r) == 2 * r + (IF r * r = a THEN 0 ELSE 1)

\* the square root of a * 2^e for a > 0 and e even
SqrtScaled(a, e) == Norm(RootSticky(a, IsqrtFrom(a, 0, 32768)), (e \div 2) - 1)

\* np.sqrt, rounded to the mantissa width
FSqrt(x) ==
    IF IsNaN(x) \/ x[1] < 0 THEN NaN
    ELSE IF IsSpecial(x) \/ x[1] = 0 THEN x
    ELSE IF (x[2] - MantBits - 1) % 2 = 0
         THEN SqrtScaled(x[1] * 2^(MantBits + 1), x[2] - MantBits - 1)
    ELSE SqrtScaled(x[1] * 2^(MantBits + 2), x[2] - MantBits - 2)

\* line 473: np.sqrt(np.trapz(Ag ** 2, t) / Td) with Td = t[-1]
RootMeanSquare(y, tt) == FSqrt(FDiv(Trapz(Squares(y), tt), tt[Len(tt)]))

\* line 493: 2 ** int(np.ceil(np.log2(len(Ag))))
FftLen(n) == 2^CeilLog2(n)

\* sample q (from 0) of the record padded with zeros to the transform
\* length
PaddedSample(y, q) == IF q < Len(y) THEN y[q + 1] ELSE Zero

\* x times the real part of exp(-2 pi i q / 4)
TimesQuarterCos(x, q) ==
    IF q % 4 = 0 THEN x ELSE IF q % 4 = 2 THEN FNeg(x) ELSE Zero

\* x times the imaginary part of exp(-2 pi i q / 4)
TimesQuarterSin(x, q) ==
    IF q % 4 = 3 THEN x ELSE IF q % 4 = 1 THEN FNeg(x) ELSE Zero

\* line 494: the real and the imaginary part of bin k of fft(Ag, N); for
\* N = 1, 2, 4 every factor exp(-2 pi i q k / N) is 1, -i, -1 or i
FftBin(y, N, k) ==
    <<SumF(Vec([q \in 1..N |->
                 TimesQuarterCos(PaddedSample(y, q - 1),
                                 (q - 1) * k * (4 \div N))])),
      SumF(Vec([q \in 1..N |->
                 TimesQuarterSin(PaddedSample(y, q - 1),
                                 (q - 1) * k * (4 \div N))]))>>

\* np.abs of a complex value
ComplexAbs(z) == FSqrt(FAdd(FMul(z[1], z[1]), FMul(z[2], z[2])))

\* lines 496-499: the bins of fftfreq(N, dt) whose frequency is positive
PositiveBins(N) == 1..((N - 1) \div 2)

\* line 496: fftfreq gives k * (1.0 / (N * dt)) for bin k
BinFreq(N, dt_, k) == FMul(FromInt(k), FDiv(One, FMul(FromInt(N), dt_)))

\* lines 494-499: the positive frequencies in increasing order
FreqColumn(N, dt_) ==
    Vec([k \in PositiveBins(N) |-> BinFreq(N, dt_, k)])

\* lines 494-498: np.abs(fft(Ag, N)) * dt at the positive frequencies
FourierAmp(y, N, dt_) ==
    Vec([k \in PositiveBins(N) |-> FMul(ComplexAbs(FftBin(y, N, k)), dt_)])

\* line 500: Famp ** 2 / (np.pi * t[-1] * aRMS ** 2)
PowerAmp(Famp, Td, aRMS) ==
    Vec([k \in 1..Len(Famp) |->
          FDiv(FMul(Famp[k], Famp[k]),
               FMul(FMul(Pi, Td), FMul(aRMS, aRMS)))])

\* lines 501-506: an array of two columns, kept as the pair of its columns
TwoColumns(c0, c1) == <<c0, c1>>

\* line 378: the dictionary, no entry assigned yet
ParamUnset ==
    [Periods |-> Unset, Sd |-> Unset, Sv |-> Unset, Sa |-> Unset,
     PSv |-> Unset, PSa |-> Unset, Ei_r |-> Unset, Ei_a |-> Unset,
     PGA |-> Unset, PGV |-> Unset, PGD |-> Unset, Arias |-> Unset,
     Aint |-> Unset, HI |-> Unset, t_5_75 |-> Unset, D_5_75 |-> Unset,
     t_5_95 |-> Unset, D_5_95 |-> Unset, t_bracketed |-> Unset,
     D_bracketed |-> Unset, t_uniform |-> Unset, D_uniform |-> Unset,
     CAV |-> Unset, aRMS |-> Unset, ASI |-> Unset, MASI |-> Unset,
     VSI |-> Unset, FAS |-> Unset, PAS |-> Unset, Tp |-> Unset]

\* inputs of the get_parameters calls
GpSamples == {Zero, Rat(1, 4), One, FromInt(-2)}

GpRecords == SeqsUpTo(GpSamples, MaxNGp)

GpDtSet == {Rat(1, 2), Rat(1, 128)}

GpBaseGrid == <<Zero, Rat(1, 10), Rat(1, 2), Rat(5, 2)>>

RECURSIVE Keep(_, _, _)
\* the entries of base at the positions in S, from position k on
Keep(base, S, k) ==
    IF k > Len(base) THEN <<>>
    ELSE (IF k \in S THEN <<base[k]>> ELSE <<>>) \o Keep(base, S, k + 1)

GpGrids ==
    {Keep(GpBaseGrid, S, 1) : S \in (SUBSET (1..4)) \ {{}}}
        \cup {<<Zero, Zero>>, <<Zero, Rat(1, 2), Zero>>,
              <<Rat(5, 2), Rat(1, 10)>>}

\* every record is tried on the grids GpMainGrids, and every grid with the
\* records GpMainRecords
GpMainGrids == {GpBaseGrid, <<Rat(1, 2)>>}

GpMainRecords == {<<Zero>>, <<One, One>>, <<One, Rat(1, 4), FromInt(-2)>>}

InitGp ==
    /\ pc = "start"
    /\ err = "none"
    /\ Ag \in GpRecords
    /\ dt \in GpDtSet
    /\ callerT \in GpGrids
    /\ callerT \in GpMainGrids \/ Ag \in GpMainRecords
    /\ T = callerT
    /\ xi = Rat(5, 100)
    /\ m = One
    /\ coef = <<>>
    /\ i = 0
    /\ u = <<>>
    /\ v = <<>>
    /\ ac = <<>>
    /\ ac_tot = <<>>
    /\ nwrites = <<>>
    /\ param = <<>>
    /\ time = <<>>
    /\ Vg = <<>>
    /\ Dg = <<>>
    /\ Aint = <<>>
    /\ index1 = Unbound
    /\ index2 = Unbound
    /\ index3 = Unbound
    /\ RotIdle
    /\ BwIdle
    /\ RepIdle
    /\ BaseIdle
    /\ MemIdle

\* lines 377-378: a new array without the zero periods, bound to T
GpFilter ==
    /\ pc = "start"
    /\ T' = NonZero(T)
    /\ param' = [ParamUnset EXCEPT !.Periods = NonZero(T)]
    /\ pc' = "spectral"
    /\ UNCHANGED <<repVars, baseVars, memVars, err, dt, xi, sdofVars, rotVars, bwVars, callerT, time, Vg,
                   Dg, Aint, index1, index2, index3>>

\* lines 380-403: time array, ground velocity and displacement, the solver
\* call and the spectral values
GpSpectral ==
    /\ pc = "spectral"
    /\ time' = TimeArray(Len(Ag), dt)
    /\ Vg' = CumTrapz(Ag, time')
    /\ Dg' = CumTrapz(Vg', time')
    /\ m' = One
    /\ \E h \in {sdof_ltha(Ag, dt, T, xi, One)} :
       \E sd \in {ColMaxAbs(h.u, Len(T))} :
       \E w \in {AngularFreq(T)} :
          /\ u' = h.u
          /\ v' = h.v
          /\ ac' = h.ac
          /\ ac_tot' = h.ac_tot
          /\ param' =
               [param EXCEPT
                  !.Sd = sd,
                  !.Sv = ColMaxAbs(h.v, Len(T)),
                  !.Sa = ColMaxAbs(h.ac_tot, Len(T)),
                  !.PSv = Vec([j \in 1..Len(T) |-> PSvOf(w[j], sd[j])]),
                  !.PSa = Vec([j \in 1..Len(T) |-> PSaOf(w[j], sd[j])]),
                  !.Ei_r = Vec([j \in 1..Len(T) |->
                                  EnergyAt(Ag, h.u, j, One)]),
                  !.Ei_a = Vec([j \in 1..Len(T) |->
                                  EnergyAt(Dg', h.ac_tot, j, One)])]
    /\ pc' = "peaks"
    /\ UNCHANGED <<repVars, baseVars, memVars, err, callVars, Ag, coef, i, nwrites, rotVars, bwVars,
                   callerT, Aint, index1, index2, index3>>

\* lines 405-416: peak ground values and the Arias intensity
GpPeaks ==
    /\ pc = "peaks"
    /\ Aint' = AriasCurve(Ag, dt)
    /\ param' =
         [param EXCEPT
            !.PGA = MaxOf(AbsSeq(Ag)),
            !.PGV = MaxOf(AbsSeq(Vg)),
            !.PGD = MaxOf(AbsSeq(Dg)),
            !.Arias = Aint'[Len(Aint')],
            !.Aint = Vec([k \in 1..Len(Aint') |-> <<time[k], Aint'[k]>>])]
    /\ pc' = "housner"
    /\ UNCHANGED <<repVars, baseVars, memVars, err, callVars, sdofVars, rotVars, bwVars, callerT, time,
                   Vg, Dg, index1, index2, index3>>

\* lines 418-424: index2 is looked up only when index1 was found
GpHousner ==
    /\ pc = "housner"
    /\ \E a \in {IndexOf(T, Rat(1, 10))} :
       \E b \in {IF a = Unbound THEN index2 ELSE IndexOf(T, Rat(5, 2))} :
          /\ index1' = a
          /\ index2' = b
          /\ param' = [param EXCEPT
                         !.HI = IntensityOver(param.PSv, T, a, b)]
    /\ pc' = "sig75"
    /\ UNCHANGED <<repVars, baseVars, memVars, err, callVars, sdofVars, rotVars, bwVars, callerT, time,
                   Vg, Dg, Aint, index3>>

\* lines 426-432: timed[0] raises IndexError when no sample is selected
GpSig575 ==
    /\ pc = "sig75"
    /\ \E idx \in {ShareIdx(Aint, Rat(5, 100), Rat(3, 4))} :
          IF idx = <<>>
          THEN pc' = "error" /\ err' = "IndexError" /\ param' = param
          ELSE \E w \in {Window(Take(time, idx))} :
                  /\ param' = [param EXCEPT !.t_5_75 = w,
                                            !.D_5_75 = WindowLength(w)]
                  /\ pc' = "sig95"
                  /\ err' = err
    /\ UNCHANGED <<repVars, baseVars, memVars, callVars, sdofVars, rotVars, bwVars, callerT, time, Vg, Dg,
                   Aint, index1, index2, index3>>

\* lines 434-440
GpSig595 ==
    /\ pc = "sig95"
    /\ \E idx \in {ShareIdx(Aint, Rat(5, 100), Rat(95, 100))} :
          IF idx = <<>>
          THEN pc' = "error" /\ err' = "IndexError" /\ param' = param
          ELSE \E w \in {Window(Take(time, idx))} :
                  /\ param' = [param EXCEPT !.t_5_95 = w,
                                            !.D_5_95 = WindowLength(w)]
                  /\ pc' = "bracketed"
                  /\ err' = err
    /\ UNCHANGED <<repVars, baseVars, memVars, callVars, sdofVars, rotVars, bwVars, callerT, time, Vg, Dg,
                   Aint, index1, index2, index3>>

\* lines 442-453: indices[0] raises IndexError when no sample reaches the
\* threshold, and the except branch sets both entries to 'N.A.'
GpBracketed ==
    /\ pc = "bracketed"
    /\ \E idx \in {ExceedIdx(Ag)} :
          IF idx = <<>>
          THEN param' = [param EXCEPT !.t_bracketed = NotApplicable,
                                      !.D_bracketed = NotApplicable]
          ELSE \E w \in {Window(Take(time, idx))} :
                  param' = [param EXCEPT !.t_bracketed = w,
                                         !.D_bracketed = WindowLength(w)]
    /\ pc' = "uniform"
    /\ UNCHANGED <<repVars, baseVars, memVars, err, callVars, sdofVars, rotVars, bwVars, callerT, time,
                   Vg, Dg, Aint, index1, index2, index3>>

\* lines 455-466: nothing in the try block raises for an empty selection
GpUniform ==
    /\ pc = "uniform"
    /\ \E tt \in {Take(time, ExceedIdx(Ag))} :
          param' = [param EXCEPT
                      !.t_uniform = <<tt>>,
                      !.D_uniform = Round3(UniformSum(RoundedGaps(tt), dt))]
    /\ pc' = "cav"
    /\ UNCHANGED <<repVars, baseVars, memVars, err, callVars, sdofVars, rotVars, bwVars, callerT, time,
                   Vg, Dg, Aint, index1, index2, index3>>

\* lines 468-476: cumulative absolute velocity and the root mean square of
\* the acceleration; vRMS, dRMS and Ic are not followed
GpCav ==
    /\ pc = "cav"
    /\ param' = [param EXCEPT !.CAV = Trapz(AbsSeq(Ag), time),
                              !.aRMS = RootMeanSquare(Ag, time)]
    /\ pc' = "asi"
    /\ UNCHANGED <<repVars, baseVars, memVars, err, callVars, sdofVars, rotVars, bwVars, callerT, time,
                   Vg, Dg, Aint, index1, index2, index3>>

\* lines 477-489: a name left unbound by lines 420-421 raises inside the
\* try blocks and is caught there
GpAsi ==
    /\ pc = "asi"
    /\ \E c \in {IndexOf(T, Rat(1, 2))} :
          /\ index3' = c
          /\ param' =
               [param EXCEPT
                  !.ASI = IntensityOver(param.Sa, T, index1, c),
                  !.MASI = IntensityOver(param.Sa, T, index1, index2),
                  !.VSI = IntensityOver(param.Sv, T, index1, index2)]
    /\ pc' = "fourier"
    /\ UNCHANGED <<repVars, baseVars, memVars, err, callVars, sdofVars, rotVars, bwVars, callerT, time,
                   Vg, Dg, Aint, index1, index2>>

\* lines 491-508: the Fourier amplitude spectrum; the power amplitudes of
\* line 500 are computed and line 508 stores FAS under 'PAS'. The mean
\* period (lines 510-515) is not followed.
GpFourier ==
    /\ pc = "fourier"
    /\ \E N \in {FftLen(Len(Ag))} :
       \E FAS \in {TwoColumns(FreqColumn(N, dt), FourierAmp(Ag, N, dt))} :
          param' = [param EXCEPT !.FAS = FAS, !.PAS = FAS]
    /\ pc' = "tp"
    /\ UNCHANGED <<repVars, baseVars, memVars, err, callVars, sdofVars, rotVars, bwVars, callerT, time,
                   Vg, Dg, Aint, index1, index2, index3>>

\* lines 517-522: max() of an empty Sa raises ValueError
GpTp ==
    /\ pc = "tp"
    /\ IF Len(param.Sa) = 0
       THEN pc' = "error" /\ err' = "ValueError" /\ param' = param
       ELSE /\ param' = [param EXCEPT
                           !.Tp = PredominantPeriods(T, param.Sa)]
            /\ pc' = "done"
            /\ err' = err
    /\ UNCHANGED <<repVars, baseVars, memVars, callVars, sdofVars, rotVars, bwVars, callerT, time, Vg, Dg,
                   Aint, index1, index2, index3>>

NextGp ==
    \/ GpFilter
    \/ GpSpectral
    \/ GpPeaks
    \/ GpHousner
    \/ GpSig575
    \/ GpSig595
    \/ GpBracketed
    \/ GpUniform
    \/ GpCav
    \/ GpAsi
    \/ GpFourier
    \/ GpTp

SpecGp == InitGp /\ [][NextGp]_vars

\* ------------------------------------------------------------------------
\* baseline_correction
\* ------------------------------------------------------------------------
\* lines 41-48: the degree n of the polynomial; a type that is none of the
\* four leaves n unbound
DegreeOf(ptype) ==
    IF ptype = "Constant" THEN 0
    ELSE IF ptype = "Linear" THEN 1
    ELSE IF ptype = "Quadratic" THEN 2
    ELSE IF ptype = "Cubic" THEN 3
    ELSE Unbound

\* the floats next to x and x itself
Neighbours(x) ==
    IF x = Zero THEN {Zero}
    ELSE {x, Norm(x[1] + 1, x[2]), Norm(x[1] - 1, x[2])}

\* a fit that returns the first sample
FitThroughFirst(t_, y) == {<<y[1]>>}

\* line 51 for n = 0: the least-squares constant is the mean of the values;
\* the solver reaches it to within one unit in the last place
PolyFitConstant(t_, y) == {<<c>> : c \in Neighbours(Mean(y))}

RECURSIVE Horner(_, _, _, _)
\* np.polyval: y = 0 ; for pv in p: y = y * x + pv
Horner(coeffs, x, k, y) ==
    IF k > Len(coeffs) THEN y
    ELSE Horner(coeffs, x, k + 1, FAdd(FMul(y, x), coeffs[k]))

\* line 52: np.polyval(P, t)
PolyVal(coeffs, t_) == Vec([k \in 1..Len(t_) |-> Horner(coeffs, t_[k], 1, Zero)])

\* line 53: values - po_va
Residual(y, fit) == Vec([k \in 1..Len(y) |-> FSub(y[k], fit[k])])

\* inputs of the baseline_correction calls: the records, the constant
\* polynomial and a type the function does not know
MaxNBase == 3

BaseSampleSet == {Zero, One, FromInt(-2), Rat(1, 3)}

BaseRecords == SeqsUpTo(BaseSampleSet, MaxNBase)

BaseTypes == {"Constant", "Spline"}

InitBase ==
    /\ pc = "start"
    /\ err = "none"
    /\ values \in BaseRecords
    /\ dt = Rat(1, 100)
    /\ polynomial_type \in BaseTypes
    /\ degree = Unbound
    /\ P = <<>>
    /\ po_va = <<>>
    /\ values_corrected = <<>>
    /\ time = <<>>
    /\ T = <<>>
    /\ xi = Zero
    /\ cut_off = <<>>
    /\ kwargs = <<>>
    /\ filter_type = "unset"
    /\ cut = <<>>
    /\ nyq = Zero
    /\ values_filtered = <<>>
    /\ org_len = 0
    /\ s_len = 0
    /\ f_len = 0
    /\ wp = <<>>
    /\ ba = <<>>
    /\ callerT = <<>>
    /\ param = <<>>
    /\ Vg = <<>>
    /\ Dg = <<>>
    /\ Aint = <<>>
    /\ index1 = Unbound
    /\ index2 = Unbound
    /\ index3 = Unbound
    /\ SdofIdle
    /\ RotIdle
    /\ RepIdle
    /\ MemIdle

\* lines 41-48
BaseDegree ==
    /\ pc = "start"
    /\ degree' = DegreeOf(polynomial_type)
    /\ pc' = "time"
    /\ UNCHANGED <<repVars, memVars, gpVars, err, callVars, sdofVars, rotVars,
                   bwVars, polynomial_type, P, po_va, values_corrected>>

\* line 50
BaseTime ==
    /\ pc = "time"
    /\ time' = TimeArray(Len(values), dt)
    /\ pc' = "fit"
    /\ UNCHANGED <<repVars, memVars, baseVars, err, callVars, sdofVars,
                   rotVars, bwVars, callerT, param, Vg, Dg, Aint, index1,
                   index2, index3>>

\* line 51: reading the unbound n raises; the constant is fitted otherwise
BaseFit ==
    /\ pc = "fit"
    /\ IF degree = Unbound
       THEN /\ err' = "UnboundLocalError"
            /\ pc' = "error"
            /\ P' = P
       ELSE /\ P' \in PolyFitConstant(time, values)
            /\ pc' = "val"
            /\ err' = err
    /\ UNCHANGED <<repVars, memVars, gpVars, callVars, sdofVars, rotVars,
                   bwVars, polynomial_type, degree, po_va, values_corrected>>

\* line 52
BaseVal ==
    /\ pc = "val"
    /\ po_va' = PolyVal(P, time)
    /\ pc' = "subtract"
    /\ UNCHANGED <<repVars, memVars, gpVars, err, callVars, sdofVars, rotVars,
                   bwVars, polynomial_type, degree, P, values_corrected>>

\* lines 53-55
BaseReturn ==
    /\ pc = "subtract"
    /\ values_corrected' = Residual(values, po_va)
    /\ pc' = "done"
    /\ UNCHANGED <<repVars, memVars, gpVars, err, callVars, sdofVars, rotVars,
                   bwVars, polynomial_type, degree, P, po_va>>

NextBase == BaseDegree \/ BaseTime \/ BaseFit \/ BaseVal \/ BaseReturn

SpecBase == InitBase /\ [][NextBase]_vars

\* ------------------------------------------------------------------------
\* Memory: the arrays the five functions are given, make, write and return
\* ------------------------------------------------------------------------
\* samples are traced by where they are stored, not by their value: the
\* samples of the caller are "0", "1" and "2", and a number a call computes is
Derived == "computed"

\* n copies of x
Filled(n, x) == Vec([q \in 1..n |-> x])

\* the samples a reference shows: n samples of array obj from offset lo
Samples(h, ref) == SubSeq(h[ref.obj].data, ref.lo + 1, ref.lo + ref.n)

\* a call in progress: the memory, the number of the call and its names
Enter(h, k, args) == [heap |-> h, call |-> k, loc |-> args]

\* name = <an expression that yields a new array>
Make(fr, name, data) ==
    [fr EXCEPT
       !.heap = Append(@, [data |-> data, maker |-> fr.call]),
       !.loc = (name :> [obj |-> Len(fr.heap) + 1, lo |-> 0, n |-> Len(data)])
                  @@ @]

RECURSIVE MakeEach(_, _, _)
\* one new array of n computed numbers for each of the names
MakeEach(fr, names, n) ==
    IF names = <<>> THEN fr
    ELSE MakeEach(Make(fr, Head(names), Filled(n, Derived)), Tail(names), n)

\* name = src: a second name for the same array
Alias(fr, name, src) == [fr EXCEPT !.loc = (name :> fr.loc[src]) @@ @]

\* name = src[s:f] and name = src.reshape(...): a view of the same memory
View(fr, name, src, s, f) ==
    [fr EXCEPT !.loc =
        (name :> [obj |-> fr.loc[src].obj, lo |-> fr.loc[src].lo + s,
                  n |-> (IF f < fr.loc[src].n THEN f ELSE fr.loc[src].n) - s])
            @@ @]

\* the array with vals stored from position lo + 1 on
Stored(data, lo, vals) ==
    Vec([q \in 1..Len(data) |->
        IF q > lo /\ q <= lo + Len(vals) THEN vals[q - lo] ELSE data[q]])

\* name[lo:lo + len(vals)] = vals: written into the array the name shows
Assign(fr, name, lo, vals) ==
    [fr EXCEPT !.heap[fr.loc[name].obj].data =
                   Stored(@, fr.loc[name].lo + lo, vals)]

\* the samples the name shows
Shown(fr, name) == Samples(fr.heap, fr.loc[name])

\* the array grown where it is
ExtendInPlace(fr, name, extra) ==
    [fr EXCEPT !.heap[fr.loc[name].obj].data = @ \o Filled(extra, "0"),
               !.loc[name].n = @ + extra]

\* lines 573, 575: name = np.append(name, np.zeros(extra))
MemAppend(fr, name, extra) ==
    Make(fr, name, Shown(fr, name) \o Filled(extra, "0"))

\* what a call hands back: the references its names hold when it returns
Returned(fr, names) == Vec([q \in 1..Len(names) |-> fr.loc[names[q]]])

\* lines 50-55 of baseline_correction
MemBaseline(fr) ==
    Make(MakeEach(Make(Make(fr, "t", Filled(Len(Shown(fr, "values")), Derived)),
                       "P", <<Derived>>),
                  <<"po_va", "values_corrected">>, Len(Shown(fr, "values"))),
         "result", <<>>)

\* lines 136-142: the padded copy, made and then written in place
MemPad(fr, new_len, sl, fl) ==
    Alias(Assign(Assign(Make(fr, "temp", Filled(new_len, Derived)),
                        "temp", fl, Filled(new_len - fl, Derived)),
                 "temp", sl, Shown(fr, "values_filtered")),
          "values_filtered", "temp")

\* lines 119-142
MemPadIf(fr, remove_gibbs, gibbs_extra, sl_of) ==
    IF remove_gibbs = NoGibbs THEN fr
    ELSE MemPad(fr, NewLen(fr.loc["values"].n, gibbs_extra),
                sl_of, sl_of + fr.loc["values"].n)

\* lines 144-151 with s_len and f_len given
MemFilter(fr, sl, fl) ==
    View(Make(MakeEach(fr, <<"wp", "b", "a">>, 2),
              "values_filtered",
              Filled(fr.loc["values_filtered"].n, Derived)),
         "values_filtered", "values_filtered", sl, fl)

\* lines 103-151 of butterworth_filter for a band given as a list
MemButterworthFrom(fr, remove_gibbs, gibbs_extra, sl) ==
    MemFilter(MemPadIf(Alias(Make(fr, "cut_off", Filled(2, Derived)),
                             "values_filtered", "values"),
                       remove_gibbs, gibbs_extra, sl),
              sl, sl + fr.loc["values"].n)

MemButterworth(fr, remove_gibbs, gibbs_extra) ==
    MemButterworthFrom(fr, remove_gibbs, gibbs_extra,
        IF remove_gibbs = NoGibbs THEN 0
        ELSE StartIndex(remove_gibbs,
                        NewLen(fr.loc["values"].n, gibbs_extra)
                            - fr.loc["values"].n))

\* the names of the arrays lines 209-234 of sdof_ltha compute
SdofTemporaries ==
    <<"fn", "wn", "k", "c", "Gamma", "a1", "a2", "a3", "a4", "a5", "a6",
      "kf", "a", "b">>

\* the four histories
SdofHistories == <<"u", "v", "ac", "ac_tot">>

RECURSIVE AssignEach(_, _, _)
\* every row of each of the named arrays written in place
AssignEach(fr, names, vals) ==
    IF names = <<>> THEN fr
    ELSE AssignEach(Assign(fr, Head(names), 0, vals), Tail(names), vals)

\* lines 203-260 of sdof_ltha on n1 samples and n2 periods: T reshaped is a
\* view of the caller's grid; p, the constants, Beta and the histories are
\* new arrays; Beta and the histories are written in place
MemSdofSized(fr, n1, n2) ==
    AssignEach(
        MakeEach(
            Assign(Make(MakeEach(Make(View(fr, "T", "T", 0, n2),
                                      "p", Filled(n1, Derived)),
                                 SdofTemporaries, n2),
                        "Beta", Filled(n2, Derived)),
                   "Beta", 0, Filled(n2, Derived)),
            SdofHistories, n1 * n2),
        SdofHistories, Filled(n1 * n2, Derived))

MemSdof(fr) == MemSdofSized(fr, fr.loc["Ag"].n, fr.loc["T"].n)

\* a call of sdof_ltha made from inside the call fr with the record named
\* rec: its arrays are made in the same memory, and the displacement history
\* comes back under the name disp
InnerSdof(fr, rec, disp) ==
    [fr EXCEPT
       !.heap = MemSdof(Enter(fr.heap, fr.call,
                              ("Ag" :> fr.loc[rec]) @@ ("T" :> fr.loc["T"]))).heap,
       !.loc = (disp :> MemSdof(Enter(fr.heap, fr.call,
                                      ("Ag" :> fr.loc[rec])
                                          @@ ("T" :> fr.loc["T"]))).loc["u"])
                  @@ @]

\* line 377: T = T[T != 0], a copy of the entries kept
DropZeros(fr) ==
    Make(fr, "T", SelectSeq(Shown(fr, "T"), LAMBDA x : x # "0"))

\* lines 395-520: the spectra, the Arias curve and the two-column tables,
\* each a new array; the tables are filled in place and PAS is a second
\* name of FAS (line 508)
MemTables(fr, n1, n2) ==
    Make(Alias(AssignEach(MakeEach(MakeEach(MakeEach(fr,
                     <<"Sd", "Sv", "Sa", "PSv", "PSa">>, n2),
                     <<"Aint">>, n1),
                     <<"temp", "FAS", "PAS">>, 2 * n1),
                    <<"temp", "FAS", "PAS">>, Filled(2 * n1, Derived)),
               "param_PAS", "FAS"),
         "Tp", <<Derived>>)

\* lines 377-522 of get_parameters
MemGetParametersFrom(fr, n1) ==
    MemTables(InnerSdof(MakeEach(fr, <<"t", "Vg", "Dg">>, n1), "Ag", "u"),
              n1, fr.loc["T"].n)

MemGetParameters(fr) ==
    MemGetParametersFrom(DropZeros(fr), fr.loc["Ag"].n)

\* what get_parameters returns: the arrays its dictionary holds
ParamArrays ==
    <<"T", "Sd", "Sv", "Sa", "PSv", "PSa", "temp", "FAS", "param_PAS", "Tp">>

\* lines 569-575 of RotDxx_spectrum
MemEqualise(fr) ==
    IF fr.loc["Ag1"].n > fr.loc["Ag2"].n
    THEN MemAppend(fr, "Ag2", fr.loc["Ag1"].n - fr.loc["Ag2"].n)
    ELSE IF fr.loc["Ag2"].n > fr.loc["Ag1"].n
    THEN MemAppend(fr, "Ag1", fr.loc["Ag2"].n - fr.loc["Ag1"].n)
    ELSE fr

\* lines 584-593: the two solver calls, the rotation table written row by
\* row, the accelerations and the percentile
MemRotate(fr) ==
    MakeEach(Assign(Make(InnerSdof(InnerSdof(fr, "Ag1", "u1"), "Ag2", "u2"),
                         "Rot_Disp", Filled(NAngles * fr.loc["T"].n, "0")),
                    "Rot_Disp", 0, Filled(NAngles * fr.loc["T"].n, Derived)),
             <<"Rot_Acc", "Sa_RotDxx">>, fr.loc["T"].n)

MemRotDxx(fr) == MemRotate(MemEqualise(fr))

\* the caller: two records of different length and a grid that holds a
\* zero; it keeps what the calls return and may pass a corrected or filtered
\* record on as the record of a later call
MaxCalls == 2

MemSampleSet == {"1", "2"}

CallerGrid == <<"0", "1", "2">>

CallerLonger == <<"1", "2", "1">>

GibbsModes == {NoGibbs, "start", "end", "mid"}

InitMem ==
    /\ pc = "caller"
    /\ err = "none"
    /\ \E a \in [1..2 -> MemSampleSet] :
          heap = <<[data |-> Vec(a), maker |-> 0],
                   [data |-> CallerLonger, maker |-> 0],
                   [data |-> CallerGrid, maker |-> 0]>>
    /\ pool = [records |-> <<[obj |-> 1, lo |-> 0, n |-> 2],
                             [obj |-> 2, lo |-> 0, n |-> 3]>>,
               grids |-> <<[obj |-> 3, lo |-> 0, n |-> 3]>>,
               results |-> <<>>]
    /\ loc = <<>>
    /\ callee = ""
    /\ ncall = 1
    /\ first = <<>>
    /\ beta_forced = FALSE
    /\ dt = Zero
    /\ T = <<>>
    /\ xi = Zero
    /\ SdofIdle
    /\ RotIdle
    /\ BwIdle
    /\ GpIdle
    /\ BaseIdle

\* the call returns: the caller keeps every array handed back, and the
\* records among them
Return(fr, name, names, passed_on) ==
    /\ heap' = fr.heap
    /\ loc' = fr.loc
    /\ callee' = name
    /\ ncall' = ncall + 1
    /\ pool' = [pool EXCEPT
                  !.results = @ \o Returned(fr, names),
                  !.records = @ \o Returned(fr, passed_on)]
    /\ UNCHANGED <<pc, err, first, beta_forced, baseVars, gpVars, callVars,
                   sdofVars, rotVars, bwVars>>

\* values_corrected = baseline_correction(values, dt, polynomial_type)
CallBaseline ==
    /\ ncall <= MaxCalls
    /\ \E r \in 1..Len(pool.records) :
          Return(MemBaseline(Enter(heap, ncall, "values" :> pool.records[r])),
                 "baseline_correction", <<"values_corrected">>,
                 <<"values_corrected">>)

\* values_filtered = butterworth_filter(values, dt, cut_off, **kwargs)
CallButterworth ==
    /\ ncall <= MaxCalls
    /\ \E r \in 1..Len(pool.records), mode \in GibbsModes :
          Return(MemButterworth(Enter(heap, ncall, "values" :> pool.records[r]),
                                mode, DefaultGibbsExtra),
                 "butterworth_filter", <<"values_filtered">>,
                 <<"values_filtered">>)

\* u, v, ac, ac_tot = sdof_ltha(Ag, dt, T, xi, m)
CallSdof ==
    /\ ncall <= MaxCalls
    /\ \E r \in 1..Len(pool.records), g \in 1..Len(pool.grids) :
          Return(MemSdof(Enter(heap, ncall,
                               ("Ag" :> pool.records[r])
                                   @@ ("T" :> pool.grids[g]))),
                 "sdof_ltha", SdofHistories, <<>>)

\* param = get_parameters(Ag, dt, T, xi)
CallGetParameters ==
    /\ ncall <= MaxCalls
    /\ \E r \in 1..Len(pool.records), g \in 1..Len(pool.grids) :
          Return(MemGetParameters(Enter(heap, ncall,
                                        ("Ag" :> pool.records[r])
                                            @@ ("T" :> pool.grids[g]))),
                 "get_parameters", ParamArrays, <<>>)

\* Sa_RotDxx = RotDxx_spectrum(Ag1, Ag2, dt, T, xi, xx)
CallRotDxx ==
    /\ ncall <= MaxCalls
    /\ \E r1 \in 1..Len(pool.records), r2 \in 1..Len(pool.records),
          g \in 1..Len(pool.grids) :
          Return(MemRotDxx(Enter(heap, ncall,
                                 ("Ag1" :> pool.records[r1])
                                     @@ ("Ag2" :> pool.records[r2])
                                     @@ ("T" :> pool.grids[g]))),
                 "RotDxx_spectrum", <<"Sa_RotDxx">>, <<>>)

NextMem ==
    \/ CallBaseline
    \/ CallButterworth
    \/ CallSdof
    \/ CallGetParameters
    \/ CallRotDxx

SpecMem == InitMem /\ [][NextMem]_vars

\* ------------------------------------------------------------------------
\* Claims on sdof_ltha
\* ------------------------------------------------------------------------
\* C1: the Newmark beta is chosen per period: 1/6 when the computed dt/T is
\* <= 0.55 (the boundary included), 1/4 when it is > 0.55, whatever the other
\* periods of the grid are; gamma is 1/2 for every period.
C1_BetaPerPeriod ==
    pc \in {"loop", "done"} =>
        /\ Len(coef.Beta) = Len(T)
        /\ Len(coef.Gamma) = Len(T)
        /\ \A j \in 1..Len(T) :
            /\ coef.Gamma[j] = Rat(1, 2)
            /\ FLe(FDiv(dt, T[j]), Rat(55, 100)) => coef.Beta[j] = Rat(1, 6)
            /\ FGt(FDiv(dt, T[j]), Rat(55, 100)) => coef.Beta[j] = Rat(1, 4)

\* a finished call on a grid that mixes a period exactly on the boundary
\* (beta 1/6) with a period beyond it (beta 1/4)
C1_Witness ==
    /\ pc = "done"
    /\ \E j, k \in 1..Len(T) :
        /\ FDiv(dt, T[j]) = Rat(55, 100)
        /\ coef.Beta[j] = Rat(1, 6)
        /\ FGt(FDiv(dt, T[k]), Rat(55, 100))
        /\ coef.Beta[k] = Rat(1, 4)

\* C2: at every index the loop has reached (index 0 included) and for every
\* period, total acceleration = relative acceleration + input acceleration.
C2_TotalAcceleration ==
    pc \in {"loop", "done"} =>
        \A r \in 1..(i + 1) : \A j \in 1..Len(T) :
            ac_tot[r][j] = FAdd(ac[r][j], Ag[r])

\* a finished call of a record whose first sample is not zero, so index 0
\* holds a total acceleration that differs from the relative one
C2_Witness ==
    /\ pc = "done"
    /\ Len(Ag) = MaxN
    /\ Ag[1] # Zero
    /\ ac_tot[1][1] # ac[1][1]
    /\ ac_tot[MaxN][1] # ac[MaxN][1]

\* C3: the four histories returned have n rows of p entries; the time loop
\* has made exactly n-1 passes and written each of the rows 1..n-1 once
\* (row 0 is written by the initial conditions only).
C3_HistoryShape ==
    pc = "done" =>
        /\ \A h \in {u, v, ac, ac_tot} :
            /\ Len(h) = Len(Ag)
            /\ \A r \in 1..Len(h) : Len(h[r]) = Len(T)
        /\ i = Len(Ag) - 1
        /\ nwrites[1] = 0
        /\ \A r \in 2..Len(Ag) : nwrites[r] = 1

\* a finished call on the longest record and the longest grid
C3_Witness ==
    /\ pc = "done"
    /\ Len(Ag) = MaxN
    /\ Len(T) = MaxP
    /\ i = MaxN - 1
    /\ nwrites[MaxN] = 1

\* column j of the four histories is column 1 of the histories in one
SameColumn(one, j) ==
    /\ Column(u, j) = Column(one.u, 1)
    /\ Column(v, j) = Column(one.v, 1)
    /\ Column(ac, j) = Column(one.ac, 1)
    /\ Column(ac_tot, j) = Column(one.ac_tot, 1)

\* C4: column j of each history of a grid call equals the history of the
\* call on the one-element grid [T_j].
C4_GridEqualsSingle ==
    pc = "done" =>
        \A j \in 1..Len(T) : SameColumn(sdof_ltha(Ag, dt, <<T[j]>>, xi, m), j)

\* a finished call on a grid of two different periods that use different
\* schemes, with a response that differs between the two columns
C4_Witness ==
    /\ pc = "done"
    /\ Len(T) >= 2
    /\ Len(Ag) = MaxN
    /\ coef.Beta[1] # coef.Beta[2]
    /\ Column(u, 1) # Column(u, 2)

\* ------------------------------------------------------------------------
\* Claims on RotDxx_spectrum
\* ------------------------------------------------------------------------
\* |u1 * cos(th) + u2 * sin(th)| at sample t of period j
RotatedAbs(t, j, th) ==
    FAbs(FAdd(FMul(u1[t][j], NpCos(th)), FMul(u2[t][j], NpSin(th))))

\* row th of Rot_Disp holds the largest rotated displacement of each period
RowIsPeak(th) ==
    \A j \in 1..Len(T) :
        /\ \A t \in 1..Len(u1) : FLe(RotatedAbs(t, j, th), Rot_Disp[th + 1][j])
        /\ \E t \in 1..Len(u1) : Rot_Disp[th + 1][j] = RotatedAbs(t, j, th)

\* the result is the largest entry of every column of RA
IsColumnMax(RA) ==
    \A j \in 1..Len(T) :
        /\ \A r \in 1..180 : FLe(RA[r][j], Sa_RotDxx[j])
        /\ \E r \in 1..180 : RA[r][j] = Sa_RotDxx[j]

\* the result is the smallest entry of every column of RA
IsColumnMin(RA) ==
    \A j \in 1..Len(T) :
        /\ \A r \in 1..180 : FLe(Sa_RotDxx[j], RA[r][j])
        /\ \E r \in 1..180 : RA[r][j] = Sa_RotDxx[j]

\* C5: the sweep covers exactly the 180 integer angles 0..179, one matrix
\* row each; with xx = 100 the result is, per period, the largest of the 180
\* rotated peak pseudo-accelerations, with xx = 0 the smallest.
C5_SweepAndExtremes ==
    /\ pc = "sweep" =>
        /\ Len(Rot_Disp) = 180
        /\ theta \in 0..180
        /\ theta > 0 => RowIsPeak(theta - 1)
    /\ pc = "done" =>
        /\ theta = 180
        /\ \A th \in 0..179 : RowIsPeak(th)
        /\ Len(Rot_Disp) = 180
        /\ xx = 100 => IsColumnMax(RotAcc(Rot_Disp, T))
        /\ xx = 0 => IsColumnMin(RotAcc(Rot_Disp, T))

\* some row of RA lies strictly between the smallest and the largest
HasSpread(RA) == \E r \in 1..180 : FLt(RA[r][1], Sa_RotDxx[1])

\* a finished call with xx = 100 whose rows differ, so that the maximum is
\* not the minimum
C5_Witness ==
    /\ pc = "done"
    /\ xx = 100
    /\ theta = 180
    /\ HasSpread(RotAcc(Rot_Disp, T))

\* the components after the length check, for caller's lengths n1 and n2 and
\* the common length n
AlignedTo(n1, n2, n) ==
    /\ Len(Ag1) = n
    /\ Len(Ag2) = n
    /\ SubSeq(Ag1, 1, n1) = caller1
    /\ SubSeq(Ag2, 1, n2) = caller2
    /\ \A q \in (n1 + 1)..n : Ag1[q] = Zero
    /\ \A q \in (n2 + 1)..n : Ag2[q] = Zero
    /\ pc # "solve" => Len(u1) = n /\ Len(u2) = n

\* C6: after the length check the shorter component is the caller's array
\* followed by zeros up to the length of the longer one, the longer one is
\* the caller's array itself, equal-length components are both the caller's
\* arrays, and the two solver calls get records of one length.
C6_ZeroPadShorter ==
    pc \in {"solve", "sweep", "done"} =>
        AlignedTo(Len(caller1), Len(caller2),
                  IF Len(caller1) > Len(caller2)
                  THEN Len(caller1) ELSE Len(caller2))

\* the solver calls have been made and the first component was the shorter
\* one
C6_Witness ==
    /\ pc = "sweep"
    /\ Len(caller1) < Len(caller2)
    /\ Len(Ag1) = Len(caller2)
    /\ Ag1[Len(Ag1)] = Zero
    /\ Len(u1) = Len(u2)

\* relative tolerance of the comparisons "within floating tolerance": 8 units
\* in the last place
RelTol == Norm(8, -MantBits)

Close(x, y) == FLe(FAbs(FSub(x, y)), FMul(RelTol, FAbs(y)))

\* PSa of get_parameters for one component
SinglePSa(U, T_, j) ==
    PSaOf(FDiv(TwoPi, T_[j]),
          MaxOf(Vec([t \in 1..Len(U) |-> FAbs(U[t][j])])))

\* C7: for two identical components RotD50 equals, for every period, the
\* single-component pseudo-acceleration within floating tolerance.
C7_IdenticalComponents ==
    (pc = "done" /\ caller1 = caller2 /\ xx = 50) =>
        \A j \in 1..Len(T) : Close(Sa_RotDxx[j], SinglePSa(u1, T, j))

\* a finished RotD50 call on two identical components with a response
C7_Witness ==
    /\ pc = "done"
    /\ caller1 = caller2
    /\ xx = 50
    /\ Len(caller1) = MaxNRot
    /\ \A j \in 1..Len(T) : FLt(Zero, Sa_RotDxx[j])

\* ------------------------------------------------------------------------
\* Claims on butterworth_filter
\* ------------------------------------------------------------------------
\* the Nyquist frequency as the documentation gives it, 1 / (2 * dt)
HalfRate == FDiv(One, FMul(Two, dt))

\* the filter type and the normalised frequencies that the pair <<a, b>> of
\* the caller asks for
WantedType(a, b) ==
    IF a = None THEN "low" ELSE IF b = None THEN "high" ELSE "band"

WantedWn(a, b) ==
    IF a = None THEN <<FDiv(b, HalfRate)>>
    ELSE IF b = None THEN <<FDiv(a, HalfRate)>>
    ELSE <<FDiv(a, HalfRate), FDiv(b, HalfRate)>>

\* C8: once the cut-off is normalised, the filter type is lowpass for
\* (None, f), highpass for (f, None) and bandpass for (f1, f2), the
\* normalised frequency is the non-None element(s) divided by 1/(2*dt), and
\* the design is made from exactly that type and frequency.
C8_FilterTypeFromPair ==
    /\ wp # <<>> =>
        /\ filter_type =
              WantedType(cut_off.items[1], cut_off.items[2])
        /\ wp = WantedWn(cut_off.items[1], cut_off.items[2])
    /\ ba # <<>> =>
        /\ ba.btype = WantedType(cut_off.items[1], cut_off.items[2])
        /\ ba.Wn = WantedWn(cut_off.items[1], cut_off.items[2])

\* finished calls on a pair: a lowpass at the second element, a highpass at
\* the first, or a band over both
C8_Witness ==
    /\ pc = "done"
    /\ cut_off.items = <<None, F2>>
    /\ ba.btype = "low"
    /\ ba.Wn = <<Rat(1, 2)>>
    /\ Len(values_filtered) = Len(values)

\* C9: a call with cut_off = (None, None) never gets past the validation of
\* its arguments: no padding is ever built, no design is made, and the
\* failure is the configuration error of the validation.
C9_NoneNoneRejected ==
    (cut_off.type \in {"list", "tuple"} /\ cut_off.items = <<None, None>>) =>
        /\ values_filtered \in {<<>>, values}
        /\ ba = <<>>
        /\ pc = "error" => err = "ValueError"

\* C10: a cut_off that is not a list or tuple, or not of length 2, ends in
\* a ValueError with nothing selected, padded, designed or filtered, and
\* never returns.
C10_InvalidPairRejected ==
    (cut_off.type \notin {"list", "tuple"} \/ Len(cut_off.items) # 2) =>
        /\ pc \in {"start", "checklen", "error"}
        /\ pc = "error" => err = "ValueError"
        /\ filter_type = "unset"
        /\ values_filtered = <<>>
        /\ wp = <<>>
        /\ ba = <<>>

\* a call with a two-element numpy array refused for its type
C10_Witness ==
    /\ pc = "error"
    /\ err = "ValueError"
    /\ cut_off.type = "ndarray"
    /\ Len(cut_off.items) = 2
    /\ cut_off.items[1] # None
    /\ values_filtered = <<>>

\* ------------------------------------------------------------------------
\* Claims on invalid time steps and zero periods
\* ------------------------------------------------------------------------
\* C11: a call with dt <= 0 never returns a result (it ends in an
\* invalid-input error instead).
C11_NonPositiveDtRejected == FLe(dt, Zero) => pc # "done"

\* the number of periods of a grid that are not zero
RECURSIVE CountNonZero(_)
CountNonZero(T_) ==
    IF T_ = <<>> THEN 0
    ELSE CountNonZero(Tail(T_)) + (IF Head(T_) = Zero THEN 0 ELSE 1)

AllFinite(row) == \A j \in 1..Len(row) : IsFinite(row[j])

\* C13: on a grid that holds zero, the solver histories of RotDxx_spectrum
\* have one column per non-zero period only, and the spectrum returned has
\* one finite value per non-zero period.
C13_RotZeroExcluded ==
    HasZero(T) =>
        /\ pc \in {"sweep", "done"} =>
            \A r \in 1..Len(u1) :
                /\ Len(u1[r]) = CountNonZero(T)
                /\ Len(u2[r]) = CountNonZero(T)
        /\ pc = "done" =>
            /\ Len(Sa_RotDxx) = CountNonZero(T)
            /\ AllFinite(Sa_RotDxx)

\* C14: a call of sdof_ltha on a grid that holds a zero period never
\* returns histories.
C14_ZeroPeriodFails == HasZero(T) => pc # "done"

\* ------------------------------------------------------------------------
\* Claims on get_parameters
\* ------------------------------------------------------------------------
\* the period-indexed entries of param have n entries each
PeriodEntriesHave(n) ==
    /\ Len(param.Sd) = n
    /\ Len(param.Sv) = n
    /\ Len(param.Sa) = n
    /\ Len(param.PSv) = n
    /\ Len(param.PSa) = n
    /\ Len(param.Ei_r) = n
    /\ Len(param.Ei_a) = n

\* C12: for a grid that holds zeros the call raises no error, 'Periods' is
\* the grid without its zeros in the original order, the solver histories
\* have one column per remaining period, and each period-indexed entry has
\* one value per remaining period.
C12_ZerosExcluded ==
    HasZero(callerT) =>
        /\ pc # "error"
        /\ pc # "start" =>
            /\ param.Periods = SelectSeq(callerT, LAMBDA x : x # Zero)
            /\ Len(param.Periods) = CountNonZero(callerT)
        /\ pc \notin {"start", "spectral", "error"} =>
            /\ \A r \in 1..Len(u) : Len(u[r]) = CountNonZero(callerT)
            /\ PeriodEntriesHave(CountNonZero(callerT))

\* the labels that follow each step of get_parameters on a call that has not
\* raised
PastHousner ==
    pc \in {"sig75", "sig95", "bracketed", "uniform", "cav", "asi", "fourier",
            "tp", "done"}

PastSig595 == pc \in {"bracketed", "uniform", "cav", "asi", "fourier", "tp", "done"}

PastBracketed == pc \in {"uniform", "cav", "asi", "fourier", "tp", "done"}

PastUniform == pc \in {"cav", "asi", "fourier", "tp", "done"}

PastAsi == pc \in {"fourier", "tp", "done"}

\* the period x is not in the filtered grid
Absent(x) == \A j \in 1..Len(T) : T[j] # x

LandmarksMarked ==
    /\ PastHousner /\ (Absent(Rat(1, 10)) \/ Absent(Rat(5, 2))) =>
          param.HI = NotApplicable
    /\ PastAsi /\ (Absent(Rat(1, 10)) \/ Absent(Rat(5, 2))) =>
          param.MASI = NotApplicable /\ param.VSI = NotApplicable
    /\ PastAsi /\ (Absent(Rat(1, 10)) \/ Absent(Rat(1, 2))) =>
          param.ASI = NotApplicable
    /\ pc = "done" => \A f \in DOMAIN param : param[f] # Unset

IntensityStepsReturn == pc \in {"housner", "asi"} => pc' # "error"

\* C15: once the Housner step has run, HI is 'N.A.' whenever 0.1 or 2.5 is
\* not in the filtered grid; once the spectrum-intensity step has run, MASI
\* and VSI are 'N.A.' whenever 0.1 or 2.5 is absent and ASI is 'N.A.'
\* whenever 0.1 or 0.5 is absent; neither step ever ends in an error, and a
\* call that returns has every followed entry set.
C15_MissingLandmarks == [](LandmarksMarked) /\ [][IntensityStepsReturn]_vars

\* a returned call on the grid (0.5, 2.5): 0.1 is absent, the others present
C15_Witness ==
    /\ pc = "done"
    /\ T = <<Rat(1, 2), Rat(5, 2)>>
    /\ param.HI = NotApplicable
    /\ param.ASI = NotApplicable
    /\ param.MASI = NotApplicable
    /\ param.VSI = NotApplicable
    /\ param.CAV # NotApplicable

\* sample k of the record reaches 0.05 g
Exceeds(k) == FLe(Threshold, FAbs(Ag[k]))

SomeExceeds == \E k \in 1..Len(Ag) : Exceeds(k)

FirstExceed ==
    CHOOSE k \in 1..Len(Ag) : Exceeds(k) /\ \A j \in 1..(k - 1) : ~Exceeds(j)

LastExceed ==
    CHOOSE k \in 1..Len(Ag) :
        Exceeds(k) /\ \A j \in (k + 1)..Len(Ag) : ~Exceeds(j)

BracketedMarkedWhenWeak ==
    ~SomeExceeds => /\ param.t_bracketed = NotApplicable
                    /\ param.D_bracketed = NotApplicable

\* C16 as stated: past the bracketed-duration step, t_bracketed is the pair
\* of the times of the first and the last sample reaching 0.05 g and
\* D_bracketed is their difference; both are 'N.A.' when no sample reaches
\* it.
C16_BracketedExactTimes ==
    PastBracketed =>
        /\ SomeExceeds =>
              /\ param.t_bracketed = <<time[FirstExceed], time[LastExceed]>>
              /\ param.D_bracketed = FSub(time[LastExceed], time[FirstExceed])
        /\ BracketedMarkedWhenWeak

\* C16 amended: past the bracketed-duration step, t_bracketed is the pair of
\* the times of the first and the last sample reaching 0.05 g, each rounded
\* to three decimals, and D_bracketed is the difference of the two rounded
\* times, rounded to three decimals; it is never negative and is 0 when one
\* sample qualifies. Both are 'N.A.' when no sample reaches 0.05 g, and the
\* step never ends in an error.
C16_BracketedRoundedTimes ==
    /\ pc = "error" /\ err = "IndexError" => param.t_bracketed = Unset
    /\ PastBracketed =>
        /\ SomeExceeds =>
              /\ param.t_bracketed =
                    <<Round3(time[FirstExceed]), Round3(time[LastExceed])>>
              /\ param.D_bracketed =
                    Round3(FSub(Round3(time[LastExceed]),
                                Round3(time[FirstExceed])))
              /\ FLe(Zero, param.D_bracketed)
              /\ FirstExceed = LastExceed => param.D_bracketed = Zero
        /\ BracketedMarkedWhenWeak

\* two samples reach 0.05 g at times that three decimals do not hold
C16_Witness ==
    /\ PastBracketed
    /\ SomeExceeds
    /\ FirstExceed # LastExceed
    /\ param.t_bracketed[2] # time[LastExceed]
    /\ FGt(param.D_bracketed, Zero)

\* C17: past the uniform-duration step of a record with no sample reaching
\* 0.05 g, t_uniform and D_uniform are both 'N.A.'.
C17_UniformMarkedWhenWeak ==
    PastUniform /\ ~SomeExceeds =>
        /\ param.t_uniform = NotApplicable
        /\ param.D_uniform = NotApplicable

\* the index pairs (k, k + 1) of samples that both reach 0.05 g
ExceedingPairs ==
    {k \in 1..(Len(Ag) - 1) : Exceeds(k) /\ Exceeds(k + 1)}

\* those of them whose time gap, rounded to eight decimals, is dt
CountedPairs ==
    {k \in ExceedingPairs : Round8(FSub(time[k + 1], time[k])) = dt}

NonTrivial == \E k \in 1..Len(Ag) : Ag[k] # Zero

\* C19: once both significant durations of a record with a non-zero sample
\* are set, 0 <= D_5_75 <= D_5_95, and the 5-75% window starts no earlier
\* and ends no later than the 5-95% window.
C19_SignificantDurationsNested ==
    PastSig595 /\ NonTrivial =>
        /\ FLe(Zero, param.D_5_75)
        /\ FLe(param.D_5_75, param.D_5_95)
        /\ FLe(param.t_5_95[1], param.t_5_75[1])
        /\ FLe(param.t_5_75[1], param.t_5_75[2])
        /\ FLe(param.t_5_75[2], param.t_5_95[2])

\* a returned call whose 5-95% window is strictly longer than the 5-75% one
C19_Witness ==
    /\ pc = "done"
    /\ NonTrivial
    /\ FGt(param.D_5_95, param.D_5_75)
    /\ FGt(param.t_5_95[2], param.t_5_75[2])

\* the labels at which the Arias entries have been stored
PastPeaks == PastHousner \/ pc \in {"housner", "error"}

\* the running Arias intensity stored at sample k
AriasAt(k) == param.Aint[k][2]

\* C20: once the Arias entries are stored, column 1 of 'Aint' has one value
\* per sample and never decreases along the sample index, and 'Arias' is its
\* last value, is not exceeded by any value of the curve, and is not
\* negative.
C20_AriasMonotone ==
    PastPeaks =>
        /\ Len(param.Aint) = Len(Ag)
        /\ \A k \in 1..(Len(Ag) - 1) : FLe(AriasAt(k), AriasAt(k + 1))
        /\ param.Arias = AriasAt(Len(Ag))
        /\ \A k \in 1..Len(Ag) : FLe(AriasAt(k), param.Arias)
        /\ FLe(Zero, param.Arias)

\* a record of three samples with a negative one, whose curve rises at
\* every sample
C20_Witness ==
    /\ pc = "done"
    /\ Len(Ag) = 3
    /\ \E k \in 1..3 : FLt(Ag[k], Zero)
    /\ FLt(Zero, AriasAt(1))
    /\ FLt(AriasAt(1), AriasAt(2))
    /\ FLt(AriasAt(2), AriasAt(3))

\* C28: for a record with a non-zero sample, once the Arias curve is known
\* both the 5-75% and the 5-95% selections hold a sample, the call does not
\* end in an IndexError, and past the two steps the four entries are set.
C28_SignificantWindowsProduced ==
    NonTrivial =>
        /\ err # "IndexError"
        /\ Aint # <<>> =>
              /\ ShareIdx(Aint, Rat(5, 100), Rat(3, 4)) # <<>>
              /\ ShareIdx(Aint, Rat(5, 100), Rat(95, 100)) # <<>>
        /\ PastSig595 =>
              /\ param.t_5_75 # Unset
              /\ param.D_5_75 # Unset
              /\ param.t_5_95 # Unset
              /\ param.D_5_95 # Unset

\* np.trapz of y against the grid over the periods with 0-based indices
\* a..b, both ends included
InclusiveIntegral(y, a, b) == Trapz(Slice(y, a, b + 1), Slice(T, a, b + 1))

\* C29: on a grid that holds 0.1 before 2.5, HI, MASI and VSI are the
\* trapezoidal integrals of PSv, Sa and Sv over every grid period from 0.1
\* up to and including 2.5; on a grid that holds 0.1 before 0.5, ASI is the
\* integral of Sa over every grid period from 0.1 up to and including 0.5.
C29_IntegralsInclusive ==
    PastAsi =>
        /\ index1 # Unbound /\ index2 # Unbound /\ index1 < index2 =>
              /\ param.HI = InclusiveIntegral(param.PSv, index1, index2)
              /\ param.MASI = InclusiveIntegral(param.Sa, index1, index2)
              /\ param.VSI = InclusiveIntegral(param.Sv, index1, index2)
        /\ index1 # Unbound /\ index3 # Unbound /\ index1 < index3 =>
              param.ASI = InclusiveIntegral(param.Sa, index1, index3)

\***************************************************************************
\* Claims on the padding of butterworth_filter
\***************************************************************************

\* C22: between padding and filtering the original samples lie at the index
\* range [s_len, s_len + original length) of the working array; the
\* returned signal has the length of the input, and its sample i is the
\* filter output at position s_len + i, the position input sample i was
\* placed at.
C22_TrimmedToPlacement ==
    /\ pc \in {"normalise", "design", "filter"} =>
          /\ f_len = s_len + Len(values)
          /\ f_len <= Len(values_filtered)
          /\ \A q \in 1..Len(values) : values_filtered[s_len + q] = values[q]
    /\ pc = "done" =>
          /\ Len(values_filtered) = Len(values)
          /\ \A q \in 1..Len(values) : values_filtered[q].pos = s_len + q

\* a returned call whose signal was placed after padding samples
C22_Witness ==
    /\ pc = "done"
    /\ kwargs.remove_gibbs # NoGibbs
    /\ s_len > 0
    /\ Len(values_filtered) = Len(values)
    /\ values_filtered[1].pos = s_len + 1

\* the number of samples the padding adds
AddedSamples ==
    NewLen(Len(values), kwargs.gibbs_extra) - Len(values)

\* the number of added samples that the pad mode puts before the signal
WantedBefore ==
    IF kwargs.remove_gibbs = "start" THEN AddedSamples
    ELSE IF kwargs.remove_gibbs = "end" THEN 0
    ELSE AddedSamples \div 2

\* C23: after padding, the working array has the length
\* 2^(ceil(log2(n)) + gibbs_extra); with 'start' every added sample
\* precedes the signal, with 'end' every added sample follows it, with
\* 'mid' half precede it; the samples before the signal hold the mean of
\* its first gibbs_range samples and those after it the mean of its last
\* gibbs_range samples.
C23_PaddingFollowsMode ==
    pc \in {"normalise", "design", "filter"} /\ kwargs.remove_gibbs # NoGibbs =>
        /\ Len(values_filtered) = Len(values) + AddedSamples
        /\ s_len = WantedBefore
        /\ \A q \in 1..s_len :
              values_filtered[q] = Mean(FirstN(values, kwargs.gibbs_range))
        /\ \A q \in (f_len + 1)..Len(values_filtered) :
              values_filtered[q] = Mean(LastN(values, kwargs.gibbs_range))

\***************************************************************************
\* Claims on the spectra of get_parameters
\***************************************************************************

\* C21: once the Fourier step has run, column 0 of 'PAS' is the frequency
\* column of 'FAS' and column 1 of 'PAS' is the squared Fourier amplitude
\* divided by pi * Td * aRMS^2, Td being the last sample time.
C21_PowerSpectrumStored ==
    pc \in {"tp", "done"} =>
        /\ param.PAS[1] = param.FAS[1]
        /\ param.PAS[2] =
              PowerAmp(param.FAS[2], time[Len(time)], param.aRMS)

\***************************************************************************
\* Claims on the symmetry of RotDxx_spectrum
\***************************************************************************

\* lines 588-590 for the displacement histories U1 and U2
RotSweep(U1, U2, n2) ==
    Vec([th \in 1..NAngles |-> RotatedPeak(U1, U2, th - 1, n2)])

\* lines 577-593 for the aligned pair of components al
RotDxxOfAligned(al) ==
    PercentileRows(RotAcc(RotSweep(sdof_ltha(al[1], dt, T, xi, One).u,
                                   sdof_ltha(al[2], dt, T, xi, One).u,
                                   Len(T)),
                          T),
                   xx, Len(T))

\* the result of the call with the two components exchanged
SwappedSa == RotDxxOfAligned(AlignLengths(caller2, caller1))

\* C30: the spectrum returned for (Ag1, Ag2) equals, for every period and
\* within floating tolerance, the spectrum of the call with the components
\* exchanged.
C30_SymmetricInComponents ==
    pc = "done" =>
        /\ Len(SwappedSa) = Len(Sa_RotDxx)
        /\ \A j \in 1..Len(T) : Close(Sa_RotDxx[j], SwappedSa[j])

\* a finished call on two different components of different lengths
C30_Witness ==
    /\ pc = "done"
    /\ caller1 # caller2
    /\ Len(caller1) # Len(caller2)
    /\ xx = 50
    /\ \A j \in 1..Len(T) : FLt(Zero, Sa_RotDxx[j])

\***************************************************************************
\* Claims on the worked example and the stability of sdof_ltha
\***************************************************************************

\* every value of the history h is finite
FiniteHistory(h) ==
    \A r \in 1..Len(h) : \A j \in 1..Len(h[r]) : IsFinite(h[r][j])

\* C25: for the record (0, 9.81, 0, -9.81, 0) with dt = 0.01, T = (0.5),
\* xi = 0.05 and m = 1, the returned displacement, velocity and
\* acceleration histories have 5 rows of finite values, and the second
\* call with the same arguments returns the values of the first.
C25_WorkedExample ==
    pc = "done" /\ Ag = CaseRecord =>
        /\ Len(u) = 5 /\ Len(v) = 5 /\ Len(ac) = 5 /\ Len(ac_tot) = 5
        /\ FiniteHistory(u) /\ FiniteHistory(v)
        /\ FiniteHistory(ac) /\ FiniteHistory(ac_tot)
        /\ ncall = 2 => History = first

\* the second call on the worked example has returned a response
C25_Witness ==
    /\ pc = "done"
    /\ ncall = 2
    /\ Ag = CaseRecord
    /\ dt = Rat(1, 100)
    /\ first # <<>>
    /\ u[5][1] # Zero

\* ------------------------------------------------------------------------
\* Claims on the stability of the two Newmark methods
\* ------------------------------------------------------------------------
\* the displacement of the only period at row r, as a magnitude
Disp(r) == FAbs(u[r][1])

\* the record is not zero throughout
Shaken == \E r \in 1..Len(Ag) : Ag[r] # Zero

\* the displacement is still growing when the record ends: its last value
\* is at least twice every value of the first half of the run
Grows ==
    \A r \in 1..(Len(u) \div 2) : FLe(FMul(Two, Disp(r)), Disp(Len(u)))

\* the displacement stays bounded: no value of the second half of the run
\* exceeds the peak of the first half
Settles ==
    \A r \in ((Len(u) \div 2) + 1)..Len(u) :
        \E q \in 1..(Len(u) \div 2) : FLe(Disp(r), Disp(q))

\* dt / T of the only period
StepRatio == FDiv(dt, T[1])

\* the stability limit of the linear acceleration method: sqrt(3) / pi
StabilityLimit == FDiv(FSqrt(FromInt(3)), Pi)

\* the run as the code makes it selects 1/4 past 0.55 and settles
SelectedSettles ==
    (~beta_forced /\ FGt(StepRatio, Rat(55, 100)))
        => (coef.Beta[1] = Rat(1, 4) /\ Settles)

InputScale == MaxOf(AbsSeq(values))

\* x is zero within the floating tolerance at the scale of the input
Negligible(x) == FLe(FAbs(x), FMul(RelTol, InputScale))

\* C27: a finished call with polynomial_type 'Constant' returns a residual
\* of the input's length, each sample the input sample minus the mean of the
\* input, whose sum and mean are zero within floating tolerance.
C27_ConstantRemovesMean ==
    (pc = "done" /\ polynomial_type = "Constant") =>
        /\ Len(values_corrected) = Len(values)
        /\ \A k \in 1..Len(values) :
              Negligible(FSub(values_corrected[k],
                              FSub(values[k], Mean(values))))
        /\ Negligible(SumF(values_corrected))
        /\ Negligible(Mean(values_corrected))

\* a finished call on a record of several samples whose mean is not zero
\* and is not exact in the floats
C27_Witness ==
    /\ pc = "done"
    /\ polynomial_type = "Constant"
    /\ Len(values) > 1
    /\ Mean(values) # Zero
    /\ \E k \in 1..Len(values) : values[k] = Rat(1, 3)
    /\ \E k \in 1..Len(values) : values_corrected[k] # Zero

\* ------------------------------------------------------------------------
\* Claims on the arrays of the caller
\* ------------------------------------------------------------------------
\* every reference the caller holds: its buffers and what earlier calls
\* returned
Held == pool.records \o pool.grids \o pool.results

\* the arrays behind the references the caller holds are as they were:
\* contents and length
HeldArraysKept ==
    \A q \in 1..Len(Held) : heap'[Held[q].obj] = heap[Held[q].obj]

\* what the step hands back lies in arrays made during the step
ResultsFresh ==
    \A q \in (Len(pool.results) + 1)..Len(pool'.results) :
        /\ pool'.results[q].obj > Len(heap)
        /\ heap'[pool'.results[q].obj].maker = ncall

\* C24: no call changes the contents or the length of an array the caller
\* holds, be it one of its buffers or the result of an earlier call, and
\* every array a call returns was made by that call.
C24_CallerArraysKept == [][HeldArraysKept /\ ResultsFresh]_vars

\* two calls made: the first filtered a record with padding and returned a
\* view past the start of its array, the second was given records of
\* different length and the buffers of the caller are as they began
C24_Witness ==
    /\ ncall = 3
    /\ callee = "RotDxx_spectrum"
    /\ loc["Ag1"].n # pool.records[1].n
    /\ \E q \in 1..Len(pool.results) :
          /\ heap[pool.results[q].obj].maker = 1
          /\ pool.results[q].lo > 0
    /\ heap[3].data = CallerGrid

====
